---- MODULE Spec2Model ----
(***************************************************************************)
(* Model of app_producao.py: the login-gated administration panel          *)
(* (customers, categories, products, stock, sales, sync control).          *)
(*                                                                         *)
(* The route handlers, authenticate_user, load_user, save_image and the    *)
(* MockModel fallback are translated from app_producao.py.  The entity     *)
(* store (models_supabase) and the sync engine (sync_supabase) are         *)
(* imported by app_producao.py but their code is not part of the source    *)
(* tree; they are modelled from the written specification (sections 4.1    *)
(* and 4.3) and are marked as such where they are defined.                 *)
(***************************************************************************)
EXTENDS Integers, FiniteSets, Sequences, TLC

VARIABLES
    SUPABASE_AVAILABLE, \* module-level flag, set once while importing
    PORT,               \* os.environ.get('PORT', 5000), as the process finds it
    phase,              \* where the process is: start-up block, serving, exited
    session,            \* the session cookie's user id (Flask-Login _user_id)
    Usuario,            \* store table: id -> user record
    Cliente,            \* store table: id -> customer record
    Categoria,          \* store table: id -> category record
    Produto,            \* store table: id -> product record
    Venda,              \* store table: id -> sale record
    seq,                \* the store's id generator, one counter per table
    uploads,            \* file handles saved under UPLOAD_FOLDER
    syncState,          \* sync engine: "Idle", "Running" or "Stopped"
    syncPasses,         \* reconciliation passes triggered on demand
    syncTicks,          \* reconciliation passes the scheduler began
    syncRunning,        \* reconciliation passes in flight
    syncCallers,        \* force_sync() calls waiting for the pass in flight
    syncQueued,         \* force_sync() calls waiting for the pass after it
    syncStopping,       \* stop_sync() was called while a pass was in flight
    syncLocal,          \* the entities of the local side: id -> [rev, data]
    syncRemote,         \* the entities of the remote side: id -> [rev, data]
    syncError,          \* SyncRecord.last-error ("" after a successful pass)
    request,            \* the request being answered (route and inputs)
    response,           \* the answer given to it
    calls,              \* the store and engine calls its handler made
    teste,              \* teste_clientes() in progress: its position and locals
    loaded              \* the edit form a browser holds: product id, quantity

\* the process: what importing and the start-up block decide
process == <<SUPABASE_AVAILABLE, PORT, phase>>

\* the sync engine
engine == <<syncState, syncPasses, syncTicks, syncRunning, syncCallers,
            syncQueued, syncStopping, syncLocal, syncRemote, syncError>>

\* the two sides the engine reconciles, and its record of the last pass
sides == <<syncLocal, syncRemote, syncError>>

\* what is in progress between two requests: a handler interleaved with
\* others, a form page not yet submitted
client == <<teste, loaded>>

vars == <<process, session, Usuario, Cliente, Categoria, Produto, Venda, seq,
          uploads, engine, request, response, calls, client>>

store == <<Usuario, Cliente, Categoria, Produto, Venda, seq>>

-----------------------------------------------------------------------------
(* Bounds of the model *)

\* rows the store creates per table before the model stops creating
MaxRows == 1
\* files save_image stores before the model stops uploading
MaxUploads == 1
\* on-demand reconciliation passes before the model stops forcing them
MaxPasses == 1
\* scheduled reconciliation passes before the model stops the scheduler
MaxTicks == 1
\* force_sync() calls that wait at the same time
MaxCallers == 2
\* the highest revision of an entity the sync reconciles
MaxRev == 2

-----------------------------------------------------------------------------
(* Python values *)

\* Python's None, where the other values are objects and dicts
None == [kind |-> "None"]

\* Python's None, where the other values are strings (a file name)
NoneStr == "<None>"

\* Python's True, as a store call returns it
True == [kind |-> "True"]

\* a key that the submitted form does not contain
Absent == "<absent>"

\* an empty table (dict / result set)
Empty == [i \in {} |-> None]

\* `not request.form.get(k)`: the key is missing or its value is empty
FormEmpty(v) == v = Absent \/ v = ""

\* class MockUser
MockUser(user_id, username, nome) ==
    [kind |-> "MockUser", id |-> user_id, username |-> username, nome |-> nome,
     is_authenticated |-> TRUE]

\* replace the fields of record r that patch names, keep the others
Patch(r, patch) == [k \in DOMAIN r \cup DOMAIN patch |->
                        IF k \in DOMAIN patch THEN patch[k] ELSE r[k]]

\* flash(message, category); NoFlash when the handler flashes nothing
Flash(message, category) ==
    << [message |-> message, detail |-> "", category |-> category] >>
\* flash(f'message: {e}', category) for a caught exception e
FlashExc(message, e, category) ==
    << [message |-> message, detail |-> e, category |-> category] >>
NoFlash == <<>>

\* render_template(view, **body), redirect(url_for(view)) and error answers
Render(view, flash, body) ==
    [code |-> 200, view |-> view, flash |-> flash, body |-> body]
Redirect(view, flash) ==
    [code |-> 302, view |-> view, flash |-> flash, body |-> None]
Abort(code) ==
    [code |-> code, view |-> "error", flash |-> NoFlash, body |-> None]

-----------------------------------------------------------------------------
(* Session / authentication gate *)

Anonymous == "<anonymous>"

\* authenticate_user, had it looked the user up in the store when it holds one
authenticate_user_stored(username, password) ==
    IF SUPABASE_AVAILABLE /\ (\E i \in DOMAIN Usuario : Usuario[i].username = username)
    THEN IF \E i \in DOMAIN Usuario : /\ Usuario[i].username = username
                                       /\ Usuario[i].password = password
         THEN MockUser("admin", "admin", "Administrador")
         ELSE None
    ELSE IF username = "admin" /\ password = "admin123"
         THEN MockUser("admin", "admin", "Administrador")
         ELSE None

\* authenticate_user with the comparison ignoring letter case
authenticate_user_caseless(username, password) ==
    IF username \in {"admin", "Admin"} /\ password \in {"admin123", "ADMIN123"}
    THEN MockUser("admin", "admin", "Administrador")
    ELSE None

\* authenticate_user(username, password)
authenticate_user(username, password) ==
    IF username = "admin" /\ password = "admin123"
    THEN MockUser("admin", "admin", "Administrador")
    ELSE None

\* load_user(user_id): the user_loader callback of Flask-Login
load_user(user_id) ==
    IF SUPABASE_AVAILABLE /\ user_id \in DOMAIN Usuario
    THEN Usuario[user_id]
    ELSE IF user_id = "admin"
         THEN MockUser("admin", "admin", "Administrador")
         ELSE None

\* current_user of the request in progress
current_user == IF session = Anonymous THEN None ELSE load_user(session)

\* current_user.is_authenticated
Authenticated == current_user # None

\* the decorated view functions, had atualizar_estoque been left bare
LoginRequired_without_estoque ==
    {"logout", "clientes", "novo_cliente", "editar_cliente", "excluir_cliente",
     "categorias", "nova_categoria", "editar_categoria", "excluir_categoria",
     "produtos", "novo_produto", "editar_produto", "excluir_produto",
     "estoque", "vendas", "nova_venda", "relatorios",
     "api_relatorio_vendas", "api_relatorio_estoque", "start_sync_route",
     "stop_sync_route", "force_sync_route", "sync_status_route",
     "teste_clientes"}

\* the view functions decorated with @login_required
LoginRequired ==
    {"logout", "clientes", "novo_cliente", "editar_cliente", "excluir_cliente",
     "categorias", "nova_categoria", "editar_categoria", "excluir_categoria",
     "produtos", "novo_produto", "editar_produto", "excluir_produto",
     "estoque", "atualizar_estoque", "vendas", "nova_venda", "relatorios",
     "api_relatorio_vendas", "api_relatorio_estoque", "start_sync_route",
     "stop_sync_route", "force_sync_route", "sync_status_route",
     "teste_clientes"}

\* the request passes the decorator of the view function, if it has one
Allowed(route) == route \notin LoginRequired \/ Authenticated

\* login_manager.unauthorized(): flash login_message, redirect to login_view
Unauthorized ==
    Redirect("login",
             Flash("Por favor, faca login para acessar esta pagina.", "message"))

-----------------------------------------------------------------------------
(* Conversions applied to submitted form values *)

\* the strings int() accepts, and the integer each denotes
IsInt(s) == s \in {"0", "3", "4", "-1", " 2", "5000"}
int(s) == CASE s = "0" -> 0
            [] s = "5000" -> 5000
            [] s = "3" -> 3
            [] s = "4" -> 4
            [] s = "-1" -> 0 - 1
            [] s = " 2" -> 2

\* the strings float() accepts, and the number each denotes
IsFloat(s) == s \in {"0", "5", "7", "-5"}
float(s) == CASE s = "0" -> 0
              [] s = "5" -> 5
              [] s = "7" -> 7
              [] s = "-5" -> 0 - 5

\* request.form.get(k, default)
FormGet(form, k, default) == IF form[k] = Absent THEN default ELSE form[k]

\* request.form[k] raises KeyError for one of the keys
KeyError(form, keys) == \E k \in keys : form[k] = Absent

-----------------------------------------------------------------------------
(* Entity store: the models of models_supabase, as section 4.1 of the      *)
(* specification describes them, and the MockModel fallback                *)

\* ids the store assigns, in the order it assigns them
IdStr == <<"1", "2", "3", "4">>

\* the outcome of a store call: the exception raised ("" for none), the
\* value returned, and the table afterwards
Outcome(raised, value, table) ==
    [raised |-> raised, value |-> value, table |-> table]

\* the validation the store applies to a new entity
WellFormedEmail(e) == e \in {"ana@x.com", "bia@x.com", "teste.web@teste.com"}
Valid(model, data) ==
    CASE model = "Cliente" -> WellFormedEmail(data.email)
      [] model = "Produto" -> data.preco >= 0 /\ data.quantidade >= 0
      [] model = "Venda" -> data.total >= 0
      [] OTHER -> TRUE

\* rows of `table` that refer to row `id` of `model`
Referenced(model, id) ==
    CASE model = "Categoria" -> \E p \in DOMAIN Produto : Produto[p].categoria_id = id
      [] model = "Cliente" -> \E v \in DOMAIN Venda : Venda[v].cliente_id = id
      [] OTHER -> FALSE

\* MockModel: every call answers empty
MockModel_get_all == Empty

\* MockModel.create, had it returned a truthy value
MockModel_create_truthy(table) == Outcome("", True, table)

MockModel_create(table) == Outcome("", None, table)

MockModel_get_by_id == None

MockModel_update(table) == Outcome("", None, table)

MockModel_delete(table) == Outcome("", None, table)

\* <Model>.get_all()
get_all(table) == IF SUPABASE_AVAILABLE THEN table ELSE MockModel_get_all

\* <Model>.get_by_id(id)
get_by_id(table, id) ==
    IF ~SUPABASE_AVAILABLE THEN MockModel_get_by_id
    ELSE IF id \in DOMAIN table THEN table[id] ELSE None

\* <Model>.create(**data): validates, assigns the id, returns the new row
create(model, table, data) ==
    IF ~SUPABASE_AVAILABLE THEN MockModel_create(table)
    ELSE IF ~Valid(model, data) THEN Outcome("ValidationError", None, table)
    ELSE LET id == IdStr[seq[model]]
             row == Patch(data, [id |-> id])
         IN  Outcome("", row, [i \in DOMAIN table \cup {id} |->
                                   IF i = id THEN row ELSE table[i]])

\* <Model>.update(id, **patch): partial patch, other fields untouched
update(table, id, patch) ==
    IF ~SUPABASE_AVAILABLE THEN MockModel_update(table)
    ELSE IF id \notin DOMAIN table THEN Outcome("NotFound", None, table)
    ELSE Outcome("", True, [table EXCEPT ![id] = Patch(@, patch)])

\* <Model>.delete(id): refused while another entity refers to the row
delete(model, table, id) ==
    IF ~SUPABASE_AVAILABLE THEN MockModel_delete(table)
    ELSE IF id \notin DOMAIN table THEN Outcome("NotFound", None, table)
    ELSE IF Referenced(model, id) THEN Outcome("ConflictError", None, table)
    ELSE Outcome("", True, [i \in DOMAIN table \ {id} |-> table[i]])

\* the exception of a store call that cannot reach the store
ConnectivityError == "ConnectivityError"

\* the store calls a view function makes are numbered 1, 2, ... in the order
\* it makes them; `fault` is the number of the one that cannot reach the
\* store (0: every call reaches it).  MockModel has no store to reach.
Fails(fault, n) == SUPABASE_AVAILABLE /\ fault = n

\* the outcome of a writing call that may fail to reach the store
Raise(fails, table, out) ==
    IF fails THEN Outcome(ConnectivityError, None, table) ELSE out

\* one call in the record of the calls a handler made: its name and the
\* exception it raised ("" for none)
Call(name, raised) == << [call |-> name, raised |-> raised] >>
Reads(fails, name) == Call(name, IF fails THEN ConnectivityError ELSE "")
NoCalls == <<>>

\* the call returned normally with a truthy value: `if Model.op(...):`
Succeeded(out) == out.raised = "" /\ out.value # None

\* the id generator after a create
Bump(model, out) ==
    IF Succeeded(out) THEN [seq EXCEPT ![model] = @ + 1] ELSE seq

-----------------------------------------------------------------------------
(* Initial state: the module has been imported (and, when run as a script, *)
(* the start-up block has run)                                             *)

\* the user criar_usuario_padrao creates
usuario_padrao ==
    [id |-> "1", username |-> "admin", password |-> "admin123",
     nome |-> "Administrador", email |-> "admin@sistema.com", tipo |-> "admin"]

\* the state of a serving process whose engine reconciles the sides
\* `local` and `remote`
Booted(local, remote) ==
    /\ PORT = "5000"
    /\ phase = "serving"
    /\ session = Anonymous
    /\ Cliente = Empty /\ Categoria = Empty /\ Produto = Empty /\ Venda = Empty
    /\ uploads = {}
    /\ syncPasses = 0 /\ syncTicks = 0 /\ syncRunning = 0
    /\ syncCallers = 0 /\ syncQueued = 0 /\ syncStopping = FALSE
    /\ syncLocal = local /\ syncRemote = remote /\ syncError = ""
    /\ request = [route |-> "startup"]
    /\ response = None
    /\ calls = NoCalls
    /\ teste = None
    /\ loaded = None
    /\ \/ \* the store modules failed to import: MockModel everywhere
          /\ SUPABASE_AVAILABLE = FALSE
          /\ Usuario = Empty
          /\ syncState = "Idle"
          /\ seq = [Usuario |-> 1, Cliente |-> 1, Categoria |-> 1,
                    Produto |-> 1, Venda |-> 1]
       \/ \* imported by the application server: the start-up block did not run
          /\ SUPABASE_AVAILABLE = TRUE
          /\ Usuario = Empty
          /\ syncState = "Idle"
          /\ seq = [Usuario |-> 1, Cliente |-> 1, Categoria |-> 1,
                    Produto |-> 1, Venda |-> 1]
       \/ \* run as a script with the store reachable: default user, sync on
          /\ SUPABASE_AVAILABLE = TRUE
          /\ Usuario = [i \in {"1"} |-> usuario_padrao]
          /\ syncState = "Running"
          /\ seq = [Usuario |-> 2, Cliente |-> 1, Categoria |-> 1,
                    Produto |-> 1, Venda |-> 1]

Init == Booted(Empty, Empty)

\* the process is serving requests: app.run() or the application server
Serving == phase = "serving"

\* the handler answers request req with resp, having made the calls `made`
Reply(req, resp, made) ==
    /\ Serving
    /\ request' = req
    /\ response' = resp
    /\ calls' = made

\* ... and neither keeps a handler in progress nor leaves a form page
Answer(req, resp, made) ==
    /\ Reply(req, resp, made)
    /\ UNCHANGED client

-----------------------------------------------------------------------------
(* Authentication routes *)

Usernames == {"admin", "Admin", "adm", "nope", Absent}
Passwords == {"admin123", "ADMIN123", "admin1234", "wrong", Absent}
LoginForms == [username : Usernames, password : Passwords]

\* the POST branch of login(), had it named the field that was wrong
LoginPost_naming_field(form) ==
    LET user == authenticate_user(form.username, form.password)
    IN  IF user # None
        THEN Redirect("index", Flash("Login realizado com sucesso!", "success"))
        ELSE IF form.username # "admin"
        THEN Render("login.html", Flash("Usuario nao encontrado!", "error"), None)
        ELSE Render("login.html", Flash("Senha incorreta!", "error"), None)

\* what the POST branch of login() answers for a submitted form
LoginPost(form) ==
    LET user == authenticate_user(form.username, form.password)
    IN  IF user # None
        THEN Redirect("index", Flash("Login realizado com sucesso!", "success"))
        ELSE Render("login.html",
                    Flash("Usuario ou senha incorretos!", "error"), None)

\* login(): GET shows the form, POST authenticates
login(method, form) ==
    /\ Allowed("login")
    /\ IF method = "GET"
       THEN /\ Answer([route |-> "login", method |-> "GET"],
                      Render("login.html", NoFlash, None), NoCalls)
            /\ UNCHANGED session
       ELSE IF KeyError(form, {"username", "password"})
       THEN \* request.form[...] is read outside the try block
            /\ Answer([route |-> "login", method |-> "POST", form |-> form],
                      Abort(400), NoCalls)
            /\ UNCHANGED session
       ELSE /\ Answer([route |-> "login", method |-> "POST", form |-> form],
                      LoginPost(form), NoCalls)
            /\ session' = IF authenticate_user(form.username, form.password) # None
                          THEN authenticate_user(form.username, form.password).id
                          ELSE session
    /\ UNCHANGED <<process, store, uploads, engine>>

\* logout(), had it not called logout_user()
logout_kept ==
    /\ Allowed("logout")
    /\ UNCHANGED session
    /\ Answer([route |-> "logout"],
              Redirect("login", Flash("Logout realizado com sucesso!", "info")),
              NoCalls)
    /\ UNCHANGED <<process, store, uploads, engine>>

\* logout()
logout ==
    /\ Allowed("logout")
    /\ session' = Anonymous
    /\ Answer([route |-> "logout"],
              Redirect("login", Flash("Logout realizado com sucesso!", "info")),
              NoCalls)
    /\ UNCHANGED <<process, store, uploads, engine>>

\* a request without an authenticated session to a @login_required view
Denied(route) ==
    /\ ~Allowed(route)
    /\ Answer([route |-> route, denied |-> TRUE], Unauthorized, NoCalls)
    /\ UNCHANGED <<process, session, store, uploads, engine>>

\* len(Model.get_all()) inside its own try block of index(): 0 when it raises
index_total(fails, table) ==
    IF fails THEN 0 ELSE Cardinality(DOMAIN get_all(table))

\* index(): the dashboard, or a redirect to login
index(fault) ==
    /\ Allowed("index")
    /\ IF ~Authenticated
       THEN Answer([route |-> "index"], Redirect("login", NoFlash), NoCalls)
       ELSE Answer([route |-> "index"],
                   Render("dashboard", NoFlash,
                          [total_clientes |-> index_total(Fails(fault, 1), Cliente),
                           total_produtos |-> index_total(Fails(fault, 2), Produto),
                           total_categorias |-> index_total(Fails(fault, 3), Categoria),
                           total_vendas |-> index_total(Fails(fault, 4), Venda)]),
                   Reads(Fails(fault, 1), "Cliente.get_all")
                   \o Reads(Fails(fault, 2), "Produto.get_all")
                   \o Reads(Fails(fault, 3), "Categoria.get_all")
                   \o Reads(Fails(fault, 4), "Venda.get_all"))
    /\ UNCHANGED <<process, session, store, uploads, engine>>

-----------------------------------------------------------------------------
(* Customer routes *)

\* ids a request may name: every id the store can assign, and one it cannot
RequestIds == {IdStr[i] : i \in 1..MaxRows} \cup {"99"}

ClienteFields ==
    {"nome", "email", "telefone", "cpf_cnpj", "endereco", "cidade", "estado", "cep"}

ClienteForms ==
    { [nome |-> "Ana", email |-> "ana@x.com", telefone |-> "111",
       cpf_cnpj |-> "222", endereco |-> "Rua A", cidade |-> "Recife",
       estado |-> "PE", cep |-> "500"],
      [nome |-> "Bia", email |-> "bia@x.com", telefone |-> "333",
       cpf_cnpj |-> "444", endereco |-> "Rua B", cidade |-> "Natal",
       estado |-> "RN", cep |-> "590"],
      [nome |-> "Ana", email |-> "ana-at-x", telefone |-> "111",
       cpf_cnpj |-> "222", endereco |-> "Rua A", cidade |-> "Recife",
       estado |-> "PE", cep |-> "500"],
      [nome |-> "Ana", email |-> "ana@x.com", telefone |-> "111",
       cpf_cnpj |-> "222", endereco |-> "Rua A", cidade |-> "Recife",
       estado |-> "PE", cep |-> Absent] }

\* cliente_data with the values of cidade and estado exchanged
cliente_data_exchanged(form) ==
    [nome |-> form.nome, email |-> form.email, telefone |-> form.telefone,
     cpf_cnpj |-> form.cpf_cnpj, endereco |-> form.endereco,
     cidade |-> form.estado, estado |-> form.cidade, cep |-> form.cep]

\* cliente_data as novo_cliente() and editar_cliente() build it
cliente_data(form) ==
    [nome |-> form.nome, email |-> form.email, telefone |-> form.telefone,
     cpf_cnpj |-> form.cpf_cnpj, endereco |-> form.endereco,
     cidade |-> form.cidade, estado |-> form.estado, cep |-> form.cep]

\* clientes()
clientes(fault) ==
    /\ Allowed("clientes")
    /\ Answer([route |-> "clientes"],
              IF Fails(fault, 1)
              THEN Render("clientes.html",
                          FlashExc("Erro ao carregar clientes", ConnectivityError, "error"),
                          [clientes |-> Empty])
              ELSE Render("clientes.html", NoFlash, [clientes |-> get_all(Cliente)]),
              Reads(Fails(fault, 1), "Cliente.get_all"))
    /\ UNCHANGED <<process, session, store, uploads, engine>>

\* novo_cliente()
novo_cliente(method, form, fault) ==
    /\ Allowed("novo_cliente")
    /\ method = "POST" => seq.Cliente <= MaxRows
    /\ LET req == [route |-> "novo_cliente", method |-> method, form |-> form]
           out == Raise(Fails(fault, 1), Cliente,
                        create("Cliente", Cliente, cliente_data(form)))
       IN  IF method = "GET"
           THEN /\ Answer([route |-> "novo_cliente", method |-> method],
                          Render("cliente_form.html", NoFlash, None), NoCalls)
                /\ UNCHANGED <<Cliente, seq>>
           ELSE IF KeyError(form, ClienteFields)
           THEN /\ Answer(req, Render("cliente_form.html",
                          FlashExc("Erro ao criar cliente", "KeyError", "error"),
                          None), NoCalls)
                /\ UNCHANGED <<Cliente, seq>>
           ELSE /\ Cliente' = out.table
                /\ seq' = Bump("Cliente", out)
                /\ Answer(req,
                    IF Succeeded(out)
                    THEN Redirect("clientes",
                                  Flash("Cliente criado com sucesso!", "success"))
                    ELSE IF out.raised # ""
                    THEN Render("cliente_form.html",
                                FlashExc("Erro ao criar cliente", out.raised, "error"),
                                None)
                    ELSE Render("cliente_form.html",
                                Flash("Erro ao criar cliente!", "error"), None),
                    Call("Cliente.create", out.raised))
    /\ UNCHANGED <<process, session, Usuario, Categoria, Produto, Venda,
                   uploads, engine>>

\* editar_cliente(id), had it not tested `if not cliente`
editar_cliente_unchecked(id, method, form, fault) ==
    /\ Allowed("editar_cliente")
    /\ LET req == [route |-> "editar_cliente", id |-> id, method |-> method,
                   form |-> form]
           cliente == get_by_id(Cliente, id)
           out == Raise(Fails(fault, 2), Cliente,
                        update(Cliente, id, cliente_data(form)))
           found == Call("Cliente.get_by_id", "")
       IN  IF Fails(fault, 1)
           THEN /\ Answer(req, Redirect("clientes",
                          FlashExc("Erro ao editar cliente", ConnectivityError, "error")),
                          Call("Cliente.get_by_id", ConnectivityError))
                /\ UNCHANGED Cliente
           ELSE IF FALSE
           THEN /\ Answer(req, Redirect("clientes",
                                 Flash("Cliente nao encontrado!", "error")), found)
                /\ UNCHANGED Cliente
           ELSE IF method = "GET"
           THEN /\ Answer([route |-> "editar_cliente", id |-> id, method |-> method],
                          Render("cliente_form.html", NoFlash, [cliente |-> cliente]),
                          found)
                /\ UNCHANGED Cliente
           ELSE IF KeyError(form, ClienteFields)
           THEN /\ Answer(req, Redirect("clientes",
                          FlashExc("Erro ao editar cliente", "KeyError", "error")),
                          found)
                /\ UNCHANGED Cliente
           ELSE /\ Cliente' = out.table
                /\ Answer(req,
                    IF Succeeded(out)
                    THEN Redirect("clientes",
                                  Flash("Cliente atualizado com sucesso!", "success"))
                    ELSE IF out.raised # ""
                    THEN Redirect("clientes",
                                  FlashExc("Erro ao editar cliente", out.raised, "error"))
                    ELSE Render("cliente_form.html",
                                Flash("Erro ao atualizar cliente!", "error"),
                                [cliente |-> cliente]),
                    found \o Call("Cliente.update", out.raised))
    /\ UNCHANGED <<process, session, Usuario, Categoria, Produto, Venda,
                   seq, uploads, engine>>

\* editar_cliente(id)
editar_cliente(id, method, form, fault) ==
    /\ Allowed("editar_cliente")
    /\ LET req == [route |-> "editar_cliente", id |-> id, method |-> method,
                   form |-> form]
           cliente == get_by_id(Cliente, id)
           out == Raise(Fails(fault, 2), Cliente,
                        update(Cliente, id, cliente_data(form)))
           found == Call("Cliente.get_by_id", "")
       IN  IF Fails(fault, 1)
           THEN /\ Answer(req, Redirect("clientes",
                          FlashExc("Erro ao editar cliente", ConnectivityError, "error")),
                          Call("Cliente.get_by_id", ConnectivityError))
                /\ UNCHANGED Cliente
           ELSE IF cliente = None
           THEN /\ Answer(req, Redirect("clientes",
                                 Flash("Cliente nao encontrado!", "error")), found)
                /\ UNCHANGED Cliente
           ELSE IF method = "GET"
           THEN /\ Answer([route |-> "editar_cliente", id |-> id, method |-> method],
                          Render("cliente_form.html", NoFlash, [cliente |-> cliente]),
                          found)
                /\ UNCHANGED Cliente
           ELSE IF KeyError(form, ClienteFields)
           THEN /\ Answer(req, Redirect("clientes",
                          FlashExc("Erro ao editar cliente", "KeyError", "error")),
                          found)
                /\ UNCHANGED Cliente
           ELSE /\ Cliente' = out.table
                /\ Answer(req,
                    IF Succeeded(out)
                    THEN Redirect("clientes",
                                  Flash("Cliente atualizado com sucesso!", "success"))
                    ELSE IF out.raised # ""
                    THEN Redirect("clientes",
                                  FlashExc("Erro ao editar cliente", out.raised, "error"))
                    ELSE Render("cliente_form.html",
                                Flash("Erro ao atualizar cliente!", "error"),
                                [cliente |-> cliente]),
                    found \o Call("Cliente.update", out.raised))
    /\ UNCHANGED <<process, session, Usuario, Categoria, Produto, Venda,
                   seq, uploads, engine>>

\* the flash of excluir_<entity>(), had it not looked at the outcome
ExcluirFlash_unchecked(out, done, failed, raised) == Flash(done, "success")

\* the flash excluir_<entity>() shows for the outcome of delete
ExcluirFlash(out, done, failed, raised) ==
    IF Succeeded(out) THEN Flash(done, "success")
    ELSE IF out.raised # "" THEN FlashExc(raised, out.raised, "error")
    ELSE Flash(failed, "error")

\* excluir_cliente(id)
excluir_cliente(id, fault) ==
    /\ Allowed("excluir_cliente")
    /\ LET out == Raise(Fails(fault, 1), Cliente, delete("Cliente", Cliente, id))
       IN  /\ Cliente' = out.table
           /\ Answer([route |-> "excluir_cliente", id |-> id],
                     Redirect("clientes",
                              ExcluirFlash(out, "Cliente excluido com sucesso!",
                                           "Erro ao excluir cliente!",
                                           "Erro ao excluir cliente")),
                     Call("Cliente.delete", out.raised))
    /\ UNCHANGED <<process, session, Usuario, Categoria, Produto, Venda,
                   seq, uploads, engine>>

-----------------------------------------------------------------------------
(* Category routes *)

CategoriaFields == {"nome", "descricao", "cor", "icone"}

CategoriaForms ==
    { [nome |-> "Papelaria", descricao |-> "escrita", cor |-> "azul",
       icone |-> "lapis"],
      [nome |-> "Limpeza", descricao |-> "casa", cor |-> "verde",
       icone |-> Absent] }

\* categoria_data as nova_categoria() and editar_categoria() build it
categoria_data(form) ==
    [nome |-> form.nome, descricao |-> form.descricao, cor |-> form.cor,
     icone |-> form.icone]

\* categorias()
categorias(fault) ==
    /\ Allowed("categorias")
    /\ Answer([route |-> "categorias"],
              IF Fails(fault, 1)
              THEN Render("categorias.html",
                          FlashExc("Erro ao carregar categorias", ConnectivityError, "error"),
                          [categorias |-> Empty])
              ELSE Render("categorias.html", NoFlash, [categorias |-> get_all(Categoria)]),
              Reads(Fails(fault, 1), "Categoria.get_all"))
    /\ UNCHANGED <<process, session, store, uploads, engine>>

\* nova_categoria()
nova_categoria(method, form, fault) ==
    /\ Allowed("nova_categoria")
    /\ method = "POST" => seq.Categoria <= MaxRows
    /\ LET req == [route |-> "nova_categoria", method |-> method, form |-> form]
           out == Raise(Fails(fault, 1), Categoria,
                        create("Categoria", Categoria, categoria_data(form)))
       IN  IF method = "GET"
           THEN /\ Answer([route |-> "nova_categoria", method |-> method],
                          Render("categoria_form.html", NoFlash, None), NoCalls)
                /\ UNCHANGED <<Categoria, seq>>
           ELSE IF KeyError(form, CategoriaFields)
           THEN /\ Answer(req, Render("categoria_form.html",
                          FlashExc("Erro ao criar categoria", "KeyError", "error"),
                          None), NoCalls)
                /\ UNCHANGED <<Categoria, seq>>
           ELSE /\ Categoria' = out.table
                /\ seq' = Bump("Categoria", out)
                /\ Answer(req,
                    IF Succeeded(out)
                    THEN Redirect("categorias",
                                  Flash("Categoria criada com sucesso!", "success"))
                    ELSE IF out.raised # ""
                    THEN Render("categoria_form.html",
                                FlashExc("Erro ao criar categoria", out.raised, "error"),
                                None)
                    ELSE Render("categoria_form.html",
                                Flash("Erro ao criar categoria!", "error"), None),
                    Call("Categoria.create", out.raised))
    /\ UNCHANGED <<process, session, Usuario, Cliente, Produto, Venda,
                   uploads, engine>>

\* editar_categoria(id)
editar_categoria(id, method, form, fault) ==
    /\ Allowed("editar_categoria")
    /\ LET req == [route |-> "editar_categoria", id |-> id, method |-> method,
                   form |-> form]
           categoria == get_by_id(Categoria, id)
           out == Raise(Fails(fault, 2), Categoria,
                        update(Categoria, id, categoria_data(form)))
           found == Call("Categoria.get_by_id", "")
       IN  IF Fails(fault, 1)
           THEN /\ Answer(req, Redirect("categorias",
                          FlashExc("Erro ao editar categoria", ConnectivityError, "error")),
                          Call("Categoria.get_by_id", ConnectivityError))
                /\ UNCHANGED Categoria
           ELSE IF categoria = None
           THEN /\ Answer(req, Redirect("categorias",
                                 Flash("Categoria nao encontrada!", "error")), found)
                /\ UNCHANGED Categoria
           ELSE IF method = "GET"
           THEN /\ Answer([route |-> "editar_categoria", id |-> id, method |-> method],
                          Render("categoria_form.html", NoFlash, [categoria |-> categoria]),
                          found)
                /\ UNCHANGED Categoria
           ELSE IF KeyError(form, CategoriaFields)
           THEN /\ Answer(req, Redirect("categorias",
                          FlashExc("Erro ao editar categoria", "KeyError", "error")),
                          found)
                /\ UNCHANGED Categoria
           ELSE /\ Categoria' = out.table
                /\ Answer(req,
                    IF Succeeded(out)
                    THEN Redirect("categorias",
                                  Flash("Categoria atualizada com sucesso!", "success"))
                    ELSE IF out.raised # ""
                    THEN Redirect("categorias",
                                  FlashExc("Erro ao editar categoria", out.raised, "error"))
                    ELSE Render("categoria_form.html",
                                Flash("Erro ao atualizar categoria!", "error"),
                                [categoria |-> categoria]),
                    found \o Call("Categoria.update", out.raised))
    /\ UNCHANGED <<process, session, Usuario, Cliente, Produto, Venda,
                   seq, uploads, engine>>

\* excluir_categoria(id)
excluir_categoria(id, fault) ==
    /\ Allowed("excluir_categoria")
    /\ LET out == Raise(Fails(fault, 1), Categoria, delete("Categoria", Categoria, id))
       IN  /\ Categoria' = out.table
           /\ Answer([route |-> "excluir_categoria", id |-> id],
                     Redirect("categorias",
                              ExcluirFlash(out, "Categoria excluida com sucesso!",
                                           "Erro ao excluir categoria!",
                                           "Erro ao excluir categoria")),
                     Call("Categoria.delete", out.raised))
    /\ UNCHANGED <<process, session, Usuario, Cliente, Produto, Venda,
                   seq, uploads, engine>>

-----------------------------------------------------------------------------
(* Image upload *)

\* request.files['imagem']: no such key, a field left empty, or a file
NoFile == [present |-> FALSE, filename |-> ""]
EmptyFile == [present |-> TRUE, filename |-> ""]
Foto == [present |-> TRUE, filename |-> "foto.png"]
Files == {NoFile, EmptyFile, Foto}

\* f"{uuid.uuid4()}_{filename}": a name no stored file has yet
UniqueNames == <<"uuid1_foto.png", "uuid2_foto.png", "uuid3_foto.png">>
unique_filename == UniqueNames[Cardinality(uploads) + 1]

\* save_image(file); saved tells whether file.save() went through
save_image(file, saved) ==
    IF file.present /\ file.filename # "" /\ saved THEN unique_filename
    ELSE NoneStr

\* the handler calls save_image for this request
Uploads(file) == file.present /\ file.filename # ""

\* UPLOAD_FOLDER after the handler called (or did not call) save_image
Stored(file, saved) ==
    IF Uploads(file) /\ save_image(file, saved) # NoneStr
    THEN uploads \cup {save_image(file, saved)}
    ELSE uploads

-----------------------------------------------------------------------------
(* Product routes *)

Caneta ==
    [nome |-> "Caneta", descricao |-> "azul", preco |-> "5", quantidade |-> "3",
     categoria_id |-> "1", codigo_barras |-> "789"]

ProdutoForms ==
    { Caneta,
      [nome |-> "Lapis", descricao |-> "preto", preco |-> "7",
       quantidade |-> "4", categoria_id |-> "2", codigo_barras |-> "123"],
      [Caneta EXCEPT !.quantidade = "-1"],
      [Caneta EXCEPT !.quantidade = "abc"],
      [Caneta EXCEPT !.quantidade = Absent],
      [Caneta EXCEPT !.preco = "-5"],
      [Caneta EXCEPT !.preco = "abc"],
      [Caneta EXCEPT !.nome = ""],
      [Caneta EXCEPT !.categoria_id = Absent],
      [Caneta EXCEPT !.descricao = Absent, !.preco = Absent,
                     !.quantidade = Absent, !.codigo_barras = Absent] }

\* produtos()
produtos(fault) ==
    /\ Allowed("produtos")
    /\ Answer([route |-> "produtos"],
              IF Fails(fault, 1) \/ Fails(fault, 2)
              THEN Render("produtos.html",
                          FlashExc("Erro ao carregar produtos", ConnectivityError, "error"),
                          [produtos |-> Empty, categorias |-> Empty])
              ELSE Render("produtos.html", NoFlash,
                          [produtos |-> get_all(Produto),
                           categorias |-> get_all(Categoria)]),
              IF Fails(fault, 1) THEN Call("Produto.get_all", ConnectivityError)
              ELSE Call("Produto.get_all", "")
                   \o Reads(Fails(fault, 2), "Categoria.get_all"))
    /\ UNCHANGED <<process, session, store, uploads, engine>>

\* categorias_list of the form pages: Categoria.get_all() inside its own try
\* block, the empty list when it raises
categorias_list(fails) == IF fails THEN Empty ELSE get_all(Categoria)

\* the exception raised while novo_produto() builds produto_data ("" if none)
novo_produto_error(form) ==
    IF KeyError(form, {"nome", "descricao", "preco"}) THEN "KeyError"
    ELSE IF ~IsFloat(form.preco) THEN "ValueError"
    ELSE IF form.quantidade # Absent /\ ~IsInt(form.quantidade) THEN "ValueError"
    ELSE IF KeyError(form, {"categoria_id", "codigo_barras"}) THEN "KeyError"
    ELSE ""

\* produto_data of novo_produto(), had it dropped the sign of the price
novo_produto_data_unsigned(form, imagem_filename) ==
    [nome |-> form.nome,
     descricao |-> form.descricao,
     preco |-> IF float(form.preco) < 0 THEN 0 - float(form.preco)
               ELSE float(form.preco),
     quantidade |-> IF form.quantidade = Absent THEN 0 ELSE int(form.quantidade),
     categoria_id |-> form.categoria_id,
     codigo_barras |-> form.codigo_barras,
     imagem |-> imagem_filename]

\* produto_data as novo_produto() builds it
novo_produto_data(form, imagem_filename) ==
    [nome |-> form.nome,
     descricao |-> form.descricao,
     preco |-> float(form.preco),
     quantidade |-> IF form.quantidade = Absent THEN 0 ELSE int(form.quantidade),
     categoria_id |-> form.categoria_id,
     codigo_barras |-> form.codigo_barras,
     imagem |-> imagem_filename]

\* novo_produto()
novo_produto(method, form, file, saved, fault) ==
    /\ Allowed("novo_produto")
    /\ method = "POST" => seq.Produto <= MaxRows
    /\ method = "POST" /\ Uploads(file) => Cardinality(uploads) < MaxUploads
    /\ LET req == [route |-> "novo_produto", method |-> method, form |-> form,
                   file |-> file]
           imagem_filename == IF Uploads(file) THEN save_image(file, saved)
                              ELSE NoneStr
           out == Raise(Fails(fault, 1), Produto,
                        create("Produto", Produto,
                               novo_produto_data(form, imagem_filename)))
           \* the form page, when Categoria.get_all() is call number n
           page(n) == [categorias |-> categorias_list(Fails(fault, n))]
           listed(n) == Reads(Fails(fault, n), "Categoria.get_all")
       IN  IF method = "GET"
           THEN /\ Answer([route |-> "novo_produto", method |-> method],
                          Render("produto_form.html", NoFlash, page(1)), listed(1))
                /\ UNCHANGED <<Produto, seq, uploads>>
           ELSE IF novo_produto_error(form) # ""
           THEN /\ Answer(req, Render("produto_form.html",
                          FlashExc("Erro ao criar produto",
                                   novo_produto_error(form), "error"), page(1)),
                          listed(1))
                /\ uploads' = Stored(file, saved)
                /\ UNCHANGED <<Produto, seq>>
           ELSE /\ Produto' = out.table
                /\ seq' = Bump("Produto", out)
                /\ uploads' = Stored(file, saved)
                /\ IF Succeeded(out)
                   THEN Answer(req, Redirect("produtos",
                                   Flash("Produto criado com sucesso!", "success")),
                               Call("Produto.create", ""))
                   ELSE Answer(req,
                          IF out.raised # ""
                          THEN Render("produto_form.html",
                                      FlashExc("Erro ao criar produto", out.raised,
                                               "error"), page(2))
                          ELSE Render("produto_form.html",
                                      Flash("Erro ao criar produto!", "error"),
                                      page(2)),
                          Call("Produto.create", out.raised) \o listed(2))
    /\ UNCHANGED <<process, session, Usuario, Cliente, Categoria,
                   Venda, engine>>

\* the flashes of the checks editar_produto() makes before it builds the
\* patch, ending with the one of its except branch (NoFlash if all pass)
editar_produto_error(form) ==
    IF FormEmpty(form.nome)
    THEN Flash("Nome do produto e obrigatorio!", "error")
         \o FlashExc("Erro ao processar dados", "ValueError", "error")
    ELSE IF FormEmpty(form.categoria_id)
    THEN Flash("Categoria e obrigatoria!", "error")
         \o FlashExc("Erro ao processar dados", "ValueError", "error")
    ELSE IF form.preco # Absent /\ ~IsFloat(form.preco)
    THEN FlashExc("Erro ao processar dados", "ValueError", "error")
    ELSE IF form.quantidade # Absent /\ ~IsInt(form.quantidade)
    THEN FlashExc("Erro ao processar dados", "ValueError", "error")
    ELSE NoFlash

\* produto_data as editar_produto() builds it
editar_produto_data(form, imagem_filename) ==
    [nome |-> form.nome,
     descricao |-> FormGet(form, "descricao", ""),
     preco |-> IF form.preco = Absent THEN 0 ELSE float(form.preco),
     quantidade |-> IF form.quantidade = Absent THEN 0 ELSE int(form.quantidade),
     categoria_id |-> form.categoria_id,
     codigo_barras |-> FormGet(form, "codigo_barras", ""),
     imagem |-> imagem_filename]

\* the image handle editar_produto() sends, had it not started from the
\* current one
editar_produto_imagem_lost(produto, file, saved) == save_image(file, saved)

\* the image handle editar_produto() sends: the current one unless a new
\* file was saved
editar_produto_imagem(produto, file, saved) ==
    IF Uploads(file) /\ save_image(file, saved) # NoneStr
    THEN save_image(file, saved)
    ELSE produto.imagem

\* editar_produto(id); `kept` tells whether the browser keeps the form page
\* of a GET to submit it later
editar_produto(id, method, form, file, saved, fault, kept) ==
    /\ Allowed("editar_produto")
    /\ method = "POST" /\ Uploads(file) /\ saved /\ get_by_id(Produto, id) # None
          => Cardinality(uploads) < MaxUploads
    /\ LET req == [route |-> "editar_produto", id |-> id, method |-> method,
                   form |-> form, file |-> file]
           produto == get_by_id(Produto, id)
           imagem_filename == editar_produto_imagem(produto, file, saved)
           out == Raise(Fails(fault, 2), Produto,
                        update(Produto, id,
                               editar_produto_data(form, imagem_filename)))
           found == Call("Produto.get_by_id", "")
           \* the form page, when Categoria.get_all() is call number n
           page(n) == [produto |-> produto,
                       categorias |-> categorias_list(Fails(fault, n))]
           listed(n) == Reads(Fails(fault, n), "Categoria.get_all")
       IN  IF Fails(fault, 1)
           THEN /\ Answer(req, Redirect("produtos",
                          FlashExc("Erro ao editar produto", ConnectivityError, "error")),
                          Call("Produto.get_by_id", ConnectivityError))
                /\ UNCHANGED <<Produto, uploads>>
           ELSE IF produto = None
           THEN /\ Answer(req, Redirect("produtos",
                                 Flash("Produto nao encontrado!", "error")), found)
                /\ UNCHANGED <<Produto, uploads>>
           ELSE IF method = "GET"
           THEN /\ Reply([route |-> "editar_produto", id |-> id, method |-> method],
                         Render("produto_form.html", NoFlash, page(2)),
                         found \o listed(2))
                /\ loaded' = IF kept
                             THEN [id |-> id, quantidade |-> produto.quantidade]
                             ELSE loaded
                /\ UNCHANGED <<Produto, uploads, teste>>
           ELSE IF editar_produto_error(form) # NoFlash
           THEN /\ Answer(req, Render("produto_form.html",
                                      editar_produto_error(form), page(2)),
                          found \o listed(2))
                /\ uploads' = Stored(file, saved)
                /\ UNCHANGED Produto
           ELSE /\ Produto' = out.table
                /\ uploads' = Stored(file, saved)
                /\ IF Succeeded(out)
                   THEN Answer(req, Redirect("produtos",
                                   Flash("Produto atualizado com sucesso!", "success")),
                               found \o Call("Produto.update", ""))
                   ELSE Answer(req,
                          IF out.raised # ""
                          THEN Render("produto_form.html",
                                      FlashExc("Erro ao processar dados", out.raised,
                                               "error"), page(3))
                          ELSE Render("produto_form.html",
                                      Flash("Erro ao atualizar produto! Verifique os dados e tente novamente.",
                                            "error"), page(3)),
                          found \o Call("Produto.update", out.raised) \o listed(3))
    /\ UNCHANGED <<process, session, Usuario, Cliente, Categoria,
                   Venda, seq, engine>>

\* excluir_produto(id)
excluir_produto(id, fault) ==
    /\ Allowed("excluir_produto")
    /\ LET out == Raise(Fails(fault, 1), Produto, delete("Produto", Produto, id))
       IN  /\ Produto' = out.table
           /\ Answer([route |-> "excluir_produto", id |-> id],
                     Redirect("produtos",
                              ExcluirFlash(out, "Produto excluido com sucesso!",
                                           "Erro ao excluir produto!",
                                           "Erro ao excluir produto")),
                     Call("Produto.delete", out.raised))
    /\ UNCHANGED <<process, session, Usuario, Cliente, Categoria,
                   Venda, seq, uploads, engine>>

-----------------------------------------------------------------------------
(* Stock routes *)

\* the 'status' estoque() gives a product
estoque_status(quantidade) ==
    IF quantidade > 0 THEN "Em estoque" ELSE "Sem estoque"

\* a row the store returns may lack a column, or hold NULL in it: the
\* columns holding NULL are listed in the row's field `nulls`
IsNull(row, k) == "nulls" \in DOMAIN row /\ k \in row.nulls

\* row.get(k, default), for a column that does not hold NULL
dict_get(row, k, default) == IF k \in DOMAIN row THEN row[k] ELSE default

\* estoque_item as estoque() builds it from a product
estoque_item(produto) ==
    [id |-> produto.id, nome |-> produto.nome, descricao |-> produto.descricao,
     quantidade |-> dict_get(produto, "quantidade", 0), preco |-> produto.preco,
     categoria |-> "Sem categoria", imagem |-> produto.imagem,
     codigo_barras |-> produto.codigo_barras,
     status |-> estoque_status(dict_get(produto, "quantidade", 0))]

\* `produto.get('quantidade', 0) > 0` raises TypeError when the column holds
\* NULL (None > 0)
estoque_TypeError(produto) == IsNull(produto, "quantidade")

\* estoque_list, had it left out the products without stock
estoque_list_in_stock ==
    [id \in {i \in DOMAIN get_all(Produto) : get_all(Produto)[i].quantidade > 0}
        |-> estoque_item(get_all(Produto)[id])]

\* estoque_list as estoque() builds it from Produto.get_all()
\* (the inner except branch leaves it empty when building an item raises)
estoque_list ==
    IF \E id \in DOMAIN get_all(Produto) : estoque_TypeError(get_all(Produto)[id])
    THEN Empty
    ELSE [id \in DOMAIN get_all(Produto) |-> estoque_item(get_all(Produto)[id])]

\* the label of the status column, had it counted zero as in stock
estoque_row_from_zero(item) ==
    IF item.quantidade >= 0 THEN "Em estoque" ELSE "Sem estoque"

\* the label of the status column in the table estoque() returns
estoque_row(item) ==
    IF item.quantidade > 0 THEN "Em estoque" ELSE "Sem estoque"

\* the page estoque() returns: the three counters and the rows
estoque_page ==
    [total |-> Cardinality(DOMAIN estoque_list),
     em_estoque |-> Cardinality({i \in DOMAIN estoque_list :
                                    estoque_list[i].quantidade > 0}),
     sem_estoque |-> Cardinality({i \in DOMAIN estoque_list :
                                    estoque_list[i].quantidade <= 0}),
     linhas |-> [i \in DOMAIN estoque_list |->
                    [quantidade |-> estoque_list[i].quantidade,
                     status |-> estoque_row(estoque_list[i])]]]

\* the page estoque() returns after Produto.get_all() raised: the inner
\* except branch leaves estoque_list empty
estoque_page_vazia ==
    [total |-> 0, em_estoque |-> 0, sem_estoque |-> 0, linhas |-> Empty]

\* estoque()
estoque(fault) ==
    /\ Allowed("estoque")
    /\ Answer([route |-> "estoque"],
              Render("estoque", NoFlash,
                     IF Fails(fault, 1) THEN estoque_page_vazia ELSE estoque_page),
              Reads(Fails(fault, 1), "Produto.get_all"))
    /\ UNCHANGED <<process, session, store, uploads, engine>>

EstoqueForms == [quantidade : {"0", "4", "-1", " 2", "abc", Absent}]

\* atualizar_estoque(id), had its produto_data also carried a price
atualizar_estoque_whole(id, form, fault) ==
    /\ Allowed("atualizar_estoque")
    /\ LET req == [route |-> "atualizar_estoque", id |-> id, form |-> form]
           quantidade == IF form.quantidade = Absent THEN 0
                         ELSE int(form.quantidade)
           produto == get_by_id(Produto, id)
           out == Raise(Fails(fault, 2), Produto,
                        update(Produto, id,
                               [quantidade |-> quantidade, preco |-> 0]))
           found == Call("Produto.get_by_id", "")
       IN  IF form.quantidade # Absent /\ ~IsInt(form.quantidade)
           THEN /\ Answer(req, Redirect("estoque",
                          FlashExc("Erro ao atualizar estoque", "ValueError", "error")),
                          NoCalls)
                /\ UNCHANGED Produto
           ELSE IF Fails(fault, 1)
           THEN /\ Answer(req, Redirect("estoque",
                          FlashExc("Erro ao atualizar estoque", ConnectivityError,
                                   "error")),
                          Call("Produto.get_by_id", ConnectivityError))
                /\ UNCHANGED Produto
           ELSE IF produto = None
           THEN /\ Answer(req, Redirect("estoque",
                                 Flash("Produto nao encontrado!", "error")), found)
                /\ UNCHANGED Produto
           ELSE /\ Produto' = out.table
                /\ Answer(req, Redirect("estoque",
                    IF Succeeded(out)
                    THEN Flash("Estoque atualizado com sucesso! Nova quantidade",
                               "success")
                    ELSE IF out.raised # ""
                    THEN FlashExc("Erro ao atualizar estoque", out.raised, "error")
                    ELSE Flash("Erro ao atualizar estoque!", "error")),
                    found \o Call("Produto.update", out.raised))
    /\ UNCHANGED <<process, session, Usuario, Cliente, Categoria,
                   Venda, seq, uploads, engine>>

\* atualizar_estoque(id)
atualizar_estoque(id, form, fault) ==
    /\ Allowed("atualizar_estoque")
    /\ LET req == [route |-> "atualizar_estoque", id |-> id, form |-> form]
           quantidade == IF form.quantidade = Absent THEN 0
                         ELSE int(form.quantidade)
           produto == get_by_id(Produto, id)
           out == Raise(Fails(fault, 2), Produto,
                        update(Produto, id, [quantidade |-> quantidade]))
           found == Call("Produto.get_by_id", "")
       IN  IF form.quantidade # Absent /\ ~IsInt(form.quantidade)
           THEN /\ Answer(req, Redirect("estoque",
                          FlashExc("Erro ao atualizar estoque", "ValueError", "error")),
                          NoCalls)
                /\ UNCHANGED Produto
           ELSE IF Fails(fault, 1)
           THEN /\ Answer(req, Redirect("estoque",
                          FlashExc("Erro ao atualizar estoque", ConnectivityError,
                                   "error")),
                          Call("Produto.get_by_id", ConnectivityError))
                /\ UNCHANGED Produto
           ELSE IF produto = None
           THEN /\ Answer(req, Redirect("estoque",
                                 Flash("Produto nao encontrado!", "error")), found)
                /\ UNCHANGED Produto
           ELSE /\ Produto' = out.table
                /\ Answer(req, Redirect("estoque",
                    IF Succeeded(out)
                    THEN Flash("Estoque atualizado com sucesso! Nova quantidade",
                               "success")
                    ELSE IF out.raised # ""
                    THEN FlashExc("Erro ao atualizar estoque", out.raised, "error")
                    ELSE Flash("Erro ao atualizar estoque!", "error")),
                    found \o Call("Produto.update", out.raised))
    /\ UNCHANGED <<process, session, Usuario, Cliente, Categoria,
                   Venda, seq, uploads, engine>>

-----------------------------------------------------------------------------
(* Sales and report routes *)

VendaForms ==
    { [cliente_id |-> "1", total |-> "5"],
      [cliente_id |-> "1", total |-> "abc"],
      [cliente_id |-> Absent, total |-> "5"] }

\* vendas()
vendas(fault) ==
    /\ Allowed("vendas")
    /\ Answer([route |-> "vendas"],
              IF Fails(fault, 1)
              THEN Render("vendas.html",
                          FlashExc("Erro ao carregar vendas", ConnectivityError, "error"),
                          [vendas |-> Empty])
              ELSE Render("vendas.html", NoFlash, [vendas |-> get_all(Venda)]),
              Reads(Fails(fault, 1), "Venda.get_all"))
    /\ UNCHANGED <<process, session, store, uploads, engine>>

\* venda_data, had the status been left open
venda_data_pendente(form) ==
    [cliente_id |-> form.cliente_id, data_venda |-> "now",
     total |-> float(form.total), status |-> "pendente"]

\* venda_data as nova_venda() builds it
venda_data(form) ==
    [cliente_id |-> form.cliente_id, data_venda |-> "now",
     total |-> float(form.total), status |-> "concluida"]

\* nova_venda()
nova_venda(method, form, fault) ==
    /\ Allowed("nova_venda")
    /\ method = "POST" => seq.Venda <= MaxRows
    /\ LET req == [route |-> "nova_venda", method |-> method, form |-> form]
           out == Raise(Fails(fault, 1), Venda,
                        create("Venda", Venda, venda_data(form)))
           \* the form page, when Cliente.get_all() is call number n and
           \* Produto.get_all() the call after it: both lists inside one try
           page(n) == IF Fails(fault, n) \/ Fails(fault, n + 1)
                      THEN [clientes |-> Empty, produtos |-> Empty]
                      ELSE [clientes |-> get_all(Cliente),
                            produtos |-> get_all(Produto)]
           listed(n) == IF Fails(fault, n)
                        THEN Call("Cliente.get_all", ConnectivityError)
                        ELSE Call("Cliente.get_all", "")
                             \o Reads(Fails(fault, n + 1), "Produto.get_all")
       IN  IF method = "GET"
           THEN /\ Answer([route |-> "nova_venda", method |-> method],
                          Render("venda_form.html", NoFlash, page(1)), listed(1))
                /\ UNCHANGED <<Venda, seq>>
           ELSE IF KeyError(form, {"cliente_id", "total"})
           THEN /\ Answer(req, Render("venda_form.html",
                          FlashExc("Erro ao criar venda", "KeyError", "error"),
                          page(1)), listed(1))
                /\ UNCHANGED <<Venda, seq>>
           ELSE IF ~IsFloat(form.total)
           THEN /\ Answer(req, Render("venda_form.html",
                          FlashExc("Erro ao criar venda", "ValueError", "error"),
                          page(1)), listed(1))
                /\ UNCHANGED <<Venda, seq>>
           ELSE /\ Venda' = out.table
                /\ seq' = Bump("Venda", out)
                /\ IF Succeeded(out)
                   THEN Answer(req, Redirect("vendas",
                                   Flash("Venda criada com sucesso!", "success")),
                               Call("Venda.create", ""))
                   ELSE Answer(req,
                          IF out.raised # ""
                          THEN Render("venda_form.html",
                                      FlashExc("Erro ao criar venda", out.raised,
                                               "error"), page(2))
                          ELSE Render("venda_form.html",
                                      Flash("Erro ao criar venda!", "error"), page(2)),
                          Call("Venda.create", out.raised) \o listed(2))
    /\ UNCHANGED <<process, session, Usuario, Cliente, Categoria,
                   Produto, uploads, engine>>

\* the Estoque model: a table no route writes
Estoque == Empty

\* the answer of an API route whose operation raised, had it kept the
\* status 200
JsonErro_ok(e) ==
    [code |-> 200, view |-> "json", flash |-> NoFlash, body |-> [erro |-> e]]

\* jsonify({'erro': str(e)}), 500
JsonErro(e) ==
    [code |-> 500, view |-> "json", flash |-> NoFlash, body |-> [erro |-> e]]

\* relatorios(), api_relatorio_vendas(), api_relatorio_estoque()
relatorios ==
    /\ Allowed("relatorios")
    /\ Answer([route |-> "relatorios"], Render("relatorios.html", NoFlash, None),
              NoCalls)
    /\ UNCHANGED <<process, session, store, uploads, engine>>

api_relatorio_vendas(fault) ==
    /\ Allowed("api_relatorio_vendas")
    /\ Answer([route |-> "api_relatorio_vendas"],
              IF Fails(fault, 1) THEN JsonErro(ConnectivityError)
              ELSE Render("json", NoFlash, [vendas |-> get_all(Venda)]),
              Reads(Fails(fault, 1), "Venda.get_all"))
    /\ UNCHANGED <<process, session, store, uploads, engine>>

api_relatorio_estoque(fault) ==
    /\ Allowed("api_relatorio_estoque")
    /\ Answer([route |-> "api_relatorio_estoque"],
              IF Fails(fault, 1) THEN JsonErro(ConnectivityError)
              ELSE Render("json", NoFlash, [estoque |-> get_all(Estoque)]),
              Reads(Fails(fault, 1), "Estoque.get_all"))
    /\ UNCHANGED <<process, session, store, uploads, engine>>

-----------------------------------------------------------------------------
(* Sync engine (sync_supabase, as sections 4.3 and 5 of the specification  *)
(* describe it) and its routes                                             *)

\* the entity that stays when both sides hold the id, had the local side
\* won a tie
Winner_local_on_tie(l, r) == IF l.rev >= r.rev THEN l ELSE r

\* the entity that stays when both sides hold the id: the higher revision,
\* the remote one on a tie
Winner(l, r) == IF l.rev > r.rev THEN l ELSE r

\* the entity set a reconciliation of `local` and `remote` aims at: an id
\* only one side holds is copied to the other (push / pull)
Reconcile(local, remote) ==
    [id \in DOMAIN local \cup DOMAIN remote |->
        IF id \notin DOMAIN remote THEN local[id]
        ELSE IF id \notin DOMAIN local THEN remote[id]
        ELSE Winner(local[id], remote[id])]

\* one side after a pass that reconciled the ids in `done` and no others
Reconciled(side, local, remote, done) ==
    [id \in DOMAIN side \cup (done \cap DOMAIN Reconcile(local, remote)) |->
        IF id \in done THEN Reconcile(local, remote)[id] ELSE side[id]]

\* a reconciliation pass is in flight: the single-flight guard, had it
\* been left out
InFlight_unguarded == FALSE

\* a reconciliation pass is in flight: the single-flight guard
InFlight == syncRunning > 0

\* start_sync(): Idle or Stopped to Running; the lambda of the fallback does
\* nothing
start_sync ==
    /\ syncState' = IF SUPABASE_AVAILABLE THEN "Running" ELSE syncState
    /\ syncStopping' = IF SUPABASE_AVAILABLE THEN FALSE ELSE syncStopping
    /\ UNCHANGED <<syncPasses, syncTicks, syncRunning, syncCallers, syncQueued,
                   sides>>

\* stop_sync(): Running to Stopped, once the pass in flight (if any) has
\* completed; the lambda of the fallback does nothing
stop_sync ==
    /\ IF SUPABASE_AVAILABLE /\ syncState = "Running"
       THEN IF InFlight
            THEN syncStopping' = TRUE /\ UNCHANGED syncState
            ELSE syncState' = "Stopped" /\ UNCHANGED syncStopping
       ELSE UNCHANGED <<syncState, syncStopping>>
    /\ UNCHANGED <<syncPasses, syncTicks, syncRunning, syncCallers, syncQueued,
                   sides>>

\* force_sync() is called: it begins a pass, or, with a pass in flight,
\* waits for the one additional pass that all the waiting calls share
force_sync ==
    /\ IF ~InFlight
       THEN /\ syncRunning' = syncRunning + 1
            /\ syncCallers' = syncCallers + 1
            /\ syncPasses' = syncPasses + 1
            /\ UNCHANGED syncQueued
       ELSE /\ syncQueued' = syncQueued + 1
            /\ syncPasses' = IF syncQueued = 0 THEN syncPasses + 1 ELSE syncPasses
            /\ UNCHANGED <<syncRunning, syncCallers>>
    /\ UNCHANGED <<syncState, syncTicks, syncStopping, sides>>

\* get_sync_status(); the lambda of the fallback returns None
get_sync_status ==
    IF SUPABASE_AVAILABLE
    THEN [running |-> syncState = "Running", passes |-> syncPasses]
    ELSE None

\* the answer of a route whose handler has not returned yet
Pending == [code |-> 0, view |-> "", flash |-> NoFlash, body |-> None]

\* start_sync_route(), had it called stop_sync()
start_sync_route_stopping(fault) ==
    /\ Allowed("start_sync_route")
    /\ IF Fails(fault, 1)
       THEN /\ Answer([route |-> "start_sync_route"],
                      Redirect("index",
                               FlashExc("Erro ao iniciar sincronizacao",
                                        ConnectivityError, "error")),
                      Call("start_sync", ConnectivityError))
            /\ UNCHANGED engine
       ELSE /\ stop_sync
            /\ Answer([route |-> "start_sync_route"],
                      Redirect("index",
                               Flash("Sincronizacao automatica iniciada!", "success")),
                      Call("start_sync", ""))
    /\ UNCHANGED <<process, session, store, uploads>>

\* start_sync_route()
start_sync_route(fault) ==
    /\ Allowed("start_sync_route")
    /\ IF Fails(fault, 1)
       THEN /\ Answer([route |-> "start_sync_route"],
                      Redirect("index",
                               FlashExc("Erro ao iniciar sincronizacao",
                                        ConnectivityError, "error")),
                      Call("start_sync", ConnectivityError))
            /\ UNCHANGED engine
       ELSE /\ start_sync
            /\ Answer([route |-> "start_sync_route"],
                      Redirect("index",
                               Flash("Sincronizacao automatica iniciada!", "success")),
                      Call("start_sync", ""))
    /\ UNCHANGED <<process, session, store, uploads>>

\* stop_sync_route(), had its except branch reported the success
stop_sync_route_unreported(fault) ==
    /\ Allowed("stop_sync_route")
    /\ IF Fails(fault, 1)
       THEN /\ Answer([route |-> "stop_sync_route"],
                      Redirect("index",
                               Flash("Sincronizacao automatica parada!", "info")),
                      Call("stop_sync", ConnectivityError))
            /\ UNCHANGED engine
       ELSE /\ stop_sync
            /\ Answer([route |-> "stop_sync_route"],
                      Redirect("index",
                               Flash("Sincronizacao automatica parada!", "info")),
                      Call("stop_sync", ""))
    /\ UNCHANGED <<process, session, store, uploads>>

\* stop_sync_route()
stop_sync_route(fault) ==
    /\ Allowed("stop_sync_route")
    /\ IF Fails(fault, 1)
       THEN /\ Answer([route |-> "stop_sync_route"],
                      Redirect("index",
                               FlashExc("Erro ao parar sincronizacao",
                                        ConnectivityError, "error")),
                      Call("stop_sync", ConnectivityError))
            /\ UNCHANGED engine
       ELSE /\ stop_sync
            /\ Answer([route |-> "stop_sync_route"],
                      Redirect("index",
                               Flash("Sincronizacao automatica parada!", "info")),
                      Call("stop_sync", ""))
    /\ UNCHANGED <<process, session, store, uploads>>

\* what force_sync_route() answers once force_sync() has returned
force_sync_done ==
    Redirect("index", Flash("Sincronizacao forcada executada!", "success"))

\* force_sync_route(), had it called stop_sync()
force_sync_route_stopping(fault) ==
    /\ Allowed("force_sync_route")
    /\ IF Fails(fault, 1)
       THEN /\ Answer([route |-> "force_sync_route"],
                      Redirect("index",
                               FlashExc("Erro na sincronizacao forcada",
                                        ConnectivityError, "error")),
                      Call("force_sync", ConnectivityError))
            /\ UNCHANGED engine
       ELSE IF ~SUPABASE_AVAILABLE
       THEN /\ Answer([route |-> "force_sync_route"], force_sync_done,
                      Call("force_sync", ""))
            /\ UNCHANGED engine
       ELSE /\ ~InFlight \/ syncQueued = 0 => syncPasses < MaxPasses
            /\ syncCallers + syncQueued < MaxCallers
            /\ stop_sync
            /\ Answer([route |-> "force_sync_route", waiting |-> TRUE], Pending,
                      Call("force_sync", ""))
    /\ UNCHANGED <<process, session, store, uploads>>

\* force_sync_route(), up to the point where force_sync() returns or raises:
\* the lambda of the fallback returns at once, the engine's force_sync()
\* when its pass has completed
force_sync_route(fault) ==
    /\ Allowed("force_sync_route")
    /\ IF Fails(fault, 1)
       THEN /\ Answer([route |-> "force_sync_route"],
                      Redirect("index",
                               FlashExc("Erro na sincronizacao forcada",
                                        ConnectivityError, "error")),
                      Call("force_sync", ConnectivityError))
            /\ UNCHANGED engine
       ELSE IF ~SUPABASE_AVAILABLE
       THEN /\ Answer([route |-> "force_sync_route"], force_sync_done,
                      Call("force_sync", ""))
            /\ UNCHANGED engine
       ELSE /\ ~InFlight \/ syncQueued = 0 => syncPasses < MaxPasses
            /\ syncCallers + syncQueued < MaxCallers
            /\ force_sync
            /\ Answer([route |-> "force_sync_route", waiting |-> TRUE], Pending,
                      Call("force_sync", ""))
    /\ UNCHANGED <<process, session, store, uploads>>

\* the scheduler's tick begins a reconciliation pass: only while Running,
\* and not while a pass is in flight
sync_tick ==
    /\ SUPABASE_AVAILABLE
    /\ phase # "crashed"
    /\ syncState = "Running" /\ ~syncStopping
    /\ ~InFlight
    /\ syncTicks < MaxTicks
    /\ syncTicks' = syncTicks + 1
    /\ syncRunning' = syncRunning + 1
    /\ UNCHANGED <<process, session, store, uploads, syncState, syncPasses,
                   syncCallers, syncQueued, syncStopping, sides, request,
                   response, calls, client>>

\* a reconciliation pass completes, having reconciled the ids in `done` (all
\* of them unless it failed partway): the force_sync() calls that waited
\* for it return and their routes answer, the pass the later calls wait for
\* begins, and a stop_sync() that waited for the pass is honoured
sync_pass_end(done) ==
    /\ syncRunning > 0
    /\ done \subseteq DOMAIN Reconcile(syncLocal, syncRemote)
    /\ phase # "crashed"
    /\ syncLocal' = Reconciled(syncLocal, syncLocal, syncRemote, done)
    /\ syncRemote' = Reconciled(syncRemote, syncLocal, syncRemote, done)
    /\ syncError' = IF done = DOMAIN Reconcile(syncLocal, syncRemote) THEN ""
                    ELSE ConnectivityError
    /\ IF syncCallers > 0
       THEN Answer([route |-> "force_sync_route"], force_sync_done,
                   Call("force_sync", ""))
       ELSE UNCHANGED <<request, response, calls, client>>
    /\ IF syncQueued > 0
       THEN /\ syncCallers' = syncQueued
            /\ syncQueued' = 0
            /\ UNCHANGED syncRunning
       ELSE /\ syncCallers' = 0
            /\ syncRunning' = syncRunning - 1
            /\ UNCHANGED syncQueued
    /\ IF syncStopping
       THEN syncState' = "Stopped" /\ syncStopping' = FALSE
       ELSE UNCHANGED <<syncState, syncStopping>>
    /\ UNCHANGED <<process, session, store, uploads, syncPasses, syncTicks>>

\* sync_status_route()
sync_status_route(fault) ==
    /\ Allowed("sync_status_route")
    /\ Answer([route |-> "sync_status_route"],
              IF Fails(fault, 1) THEN JsonErro(ConnectivityError)
              ELSE Render("json", NoFlash, get_sync_status),
              Reads(Fails(fault, 1), "get_sync_status"))
    /\ UNCHANGED <<process, session, store, uploads, engine>>

-----------------------------------------------------------------------------
(* Diagnostic and static routes *)

\* cliente_teste of teste_clientes()
cliente_teste ==
    [nome |-> "Cliente Teste Web", email |-> "teste.web@teste.com",
     telefone |-> "(11) 77777-7777", cpf_cnpj |-> "111.222.333-44",
     endereco |-> "Rua Teste Web, 999", cidade |-> "Sao Paulo",
     estado |-> "SP", cep |-> "01234-999"]

\* teste_clientes()
teste_clientes(fault) ==
    /\ Allowed("teste_clientes")
    /\ seq.Cliente <= MaxRows
    /\ LET out == Raise(Fails(fault, 2), Cliente,
                        create("Cliente", Cliente, cliente_teste))
           listed == Call("Cliente.get_all", "")
       IN  IF Fails(fault, 1)
           THEN /\ Answer([route |-> "teste_clientes"], JsonErro(ConnectivityError),
                          Call("Cliente.get_all", ConnectivityError))
                /\ UNCHANGED <<Cliente, seq>>
           ELSE /\ Cliente' = out.table
                /\ seq' = Bump("Cliente", out)
                /\ IF out.raised # ""
                   THEN Answer([route |-> "teste_clientes"], JsonErro(out.raised),
                               listed \o Call("Cliente.create", out.raised))
                   ELSE IF Fails(fault, 3)
                   THEN Answer([route |-> "teste_clientes"],
                               JsonErro(ConnectivityError),
                               listed \o Call("Cliente.create", "")
                               \o Call("Cliente.get_all", ConnectivityError))
                   ELSE Answer([route |-> "teste_clientes"],
                          Render("json",
                            IF Succeeded(out)
                            THEN Flash("Cliente de teste criado! ID", "success")
                            ELSE Flash("Falha ao criar cliente de teste!", "error"),
                            [antes |-> Cardinality(DOMAIN get_all(Cliente)),
                             depois |-> Cardinality(DOMAIN
                                 (IF SUPABASE_AVAILABLE THEN out.table
                                  ELSE MockModel_get_all)),
                             cliente_teste |-> out.value]),
                          listed \o Call("Cliente.create", "") \o listed)
    /\ UNCHANGED <<process, session, Usuario, Categoria, Produto,
                   Venda, uploads, engine>>

\* teste_clientes() statement by statement, as one thread of the server runs
\* it while other requests are served: `clientes = Cliente.get_all()`
teste_clientes_antes ==
    /\ Allowed("teste_clientes")
    /\ Serving
    /\ teste = None
    /\ teste' = [pc |-> "create",
                 antes |-> Cardinality(DOMAIN get_all(Cliente))]
    /\ UNCHANGED <<process, session, store, uploads, engine, request,
                   response, calls, loaded>>

\* `resultado = Cliente.create(**cliente_teste)`
teste_clientes_create ==
    /\ teste # None /\ teste.pc = "create"
    /\ Serving
    /\ seq.Cliente <= MaxRows
    /\ LET out == create("Cliente", Cliente, cliente_teste)
       IN  /\ Cliente' = out.table
           /\ seq' = Bump("Cliente", out)
           /\ teste' = [pc |-> "depois", antes |-> teste.antes,
                        resultado |-> out.value]
    /\ UNCHANGED <<process, session, Usuario, Categoria, Produto, Venda,
                   uploads, engine, request, response, calls, loaded>>

\* `clientes_apos = Cliente.get_all()` and the jsonify(...) that answers
teste_clientes_depois ==
    /\ teste # None /\ teste.pc = "depois"
    /\ Reply([route |-> "teste_clientes"],
             Render("json",
                    IF teste.resultado # None
                    THEN Flash("Cliente de teste criado! ID", "success")
                    ELSE Flash("Falha ao criar cliente de teste!", "error"),
                    [antes |-> teste.antes,
                     depois |-> Cardinality(DOMAIN get_all(Cliente)),
                     cliente_teste |-> teste.resultado]),
             Call("Cliente.get_all", "") \o Call("Cliente.create", "")
             \o Call("Cliente.get_all", ""))
    /\ teste' = None
    /\ UNCHANGED <<process, session, store, uploads, engine, loaded>>

\* the views that only return fixed content or a description of the session
PublicRoutes ==
    {"fallback", "teste", "debug", "manifest", "service_worker", "api_teste",
     "api_status", "teste_sessao"}

public(route) ==
    /\ Allowed(route)
    /\ Answer([route |-> route], Render(route, NoFlash, None), NoCalls)
    /\ UNCHANGED <<process, session, store, uploads, engine>>

\* uploaded_file(filename)
uploaded_file(filename) ==
    /\ Allowed("uploaded_file")
    /\ Answer([route |-> "uploaded_file", filename |-> filename],
              IF filename \in uploads
              THEN Render("file", NoFlash, None)
              ELSE Abort(404),
              NoCalls)
    /\ UNCHANGED <<process, session, store, uploads, engine>>

-----------------------------------------------------------------------------
(* The start-up block: `if __name__ == '__main__':` *)

\* criar_usuario_padrao(): creates the default user if the store has none;
\* whatever the store raises is logged and dropped
criar_usuario_padrao(fault) ==
    LET out == Raise(Fails(fault, 2), Usuario,
                     create("Usuario", Usuario, usuario_padrao))
    IN  IF SUPABASE_AVAILABLE /\ ~Fails(fault, 1) /\ get_all(Usuario) = Empty
        THEN Usuario' = out.table /\ seq' = Bump("Usuario", out)
        ELSE UNCHANGED <<Usuario, seq>>

\* the store's administrator changes the password of the stored default
\* user (the warning criar_usuario_padrao logs asks for it)
usuario_password_changed ==
    /\ SUPABASE_AVAILABLE
    /\ "1" \in DOMAIN Usuario
    /\ Usuario["1"].password = "admin123"
    /\ Usuario' = [Usuario EXCEPT !["1"].password = "admin1234"]
    /\ UNCHANGED <<process, session, Cliente, Categoria, Produto, Venda, seq,
                   uploads, engine, request, response, calls, client>>

\* a step of the start-up block leaves the requests and the session alone
main_frame ==
    UNCHANGED <<SUPABASE_AVAILABLE, PORT, session, Cliente, Categoria, Produto,
                Venda, uploads, request, response, calls, client>>

\* `if supabase and hasattr(...) and supabase.test_connection():`
main_test_connection(result) ==
    /\ phase = "main"
    /\ phase' = IF ~SUPABASE_AVAILABLE THEN "offline"
                ELSE CASE result = "ok" -> "connected"
                       [] result = "failed" -> "offline"
                       [] result = "raises" -> "emergency"
    /\ main_frame
    /\ UNCHANGED <<Usuario, seq, engine>>

\* criar_usuario_padrao(), in either branch of the connection test
main_criar_usuario_padrao(fault) ==
    /\ phase \in {"connected", "offline"}
    /\ criar_usuario_padrao(fault)
    /\ phase' = IF phase = "connected" THEN "sync" ELSE "run"
    /\ main_frame
    /\ UNCHANGED engine

\* `try: start_sync() except Exception as sync_error: logger.warning(...)`
main_start_sync(fault) ==
    /\ phase = "sync"
    /\ IF Fails(fault, 1) THEN UNCHANGED engine ELSE start_sync
    /\ phase' = "run"
    /\ main_frame
    /\ UNCHANGED <<Usuario, seq>>

\* `port = int(os.environ.get('PORT', 5000))` and app.run(...) in the try
\* block; `bound` tells whether app.run() could bind the port.  app.run()
\* serves until the process ends.
main_app_run(bound) ==
    /\ phase = "run"
    /\ phase' = IF IsInt(PORT) /\ bound THEN "serving" ELSE "emergency"
    /\ main_frame
    /\ UNCHANGED <<Usuario, seq, engine>>

\* the except branch of the start-up block: the same two statements again,
\* with nothing to catch what they raise
main_emergency(bound) ==
    /\ phase = "emergency"
    /\ phase' = IF IsInt(PORT) /\ bound THEN "serving" ELSE "crashed"
    /\ main_frame
    /\ UNCHANGED <<Usuario, seq, engine>>

\* the state in which the start-up block begins
InitMain ==
    /\ phase = "main"
    /\ SUPABASE_AVAILABLE \in BOOLEAN
    /\ PORT \in {"5000", "abc"}
    /\ session = Anonymous
    /\ \/ /\ Usuario = Empty
          /\ seq = [Usuario |-> 1, Cliente |-> 1, Categoria |-> 1,
                    Produto |-> 1, Venda |-> 1]
       \/ \* the store kept the default user of an earlier run
          /\ SUPABASE_AVAILABLE
          /\ Usuario = [i \in {"1"} |-> usuario_padrao]
          /\ seq = [Usuario |-> 2, Cliente |-> 1, Categoria |-> 1,
                    Produto |-> 1, Venda |-> 1]
    /\ Cliente = Empty /\ Categoria = Empty /\ Produto = Empty /\ Venda = Empty
    /\ uploads = {}
    /\ syncState = "Idle"
    /\ syncPasses = 0 /\ syncTicks = 0 /\ syncRunning = 0
    /\ syncCallers = 0 /\ syncQueued = 0 /\ syncStopping = FALSE
    /\ syncLocal = Empty /\ syncRemote = Empty /\ syncError = ""
    /\ request = [route |-> "startup"]
    /\ response = None
    /\ calls = NoCalls
    /\ teste = None
    /\ loaded = None

-----------------------------------------------------------------------------
(* Specifications *)

Methods == {"GET", "POST"}

\* the requests a client sends to the authentication routes
AuthRequests(forms) ==
    \/ login("GET", [username |-> Absent, password |-> Absent])
    \/ \E f \in forms : login("POST", f)
    \/ logout
    \/ index(0)
    \/ \E r \in LoginRequired : Denied(r)

\* ... to the customer routes
ClienteRequests(forms, ids) ==
    \/ clientes(0)
    \/ \E m \in Methods, f \in forms : novo_cliente(m, f, 0)
    \/ \E id \in ids, m \in Methods, f \in forms : editar_cliente(id, m, f, 0)
    \/ \E id \in ids : excluir_cliente(id, 0)

\* ... to the category routes
CategoriaRequests(forms, ids) ==
    \/ categorias(0)
    \/ \E m \in Methods, f \in forms : nova_categoria(m, f, 0)
    \/ \E id \in ids, m \in Methods, f \in forms : editar_categoria(id, m, f, 0)
    \/ \E id \in ids : excluir_categoria(id, 0)

\* ... to the product and stock routes; a submission is a form, the file
\* sent with it and whether saving the file goes through
ProdutoRequests(novos, edicoes, quantidades, ids) ==
    \/ produtos(0)
    \/ novo_produto("GET", Caneta, NoFile, FALSE, 0)
    \/ \E s \in novos : novo_produto("POST", s[1], s[2], s[3], 0)
    \/ \E id \in ids : editar_produto(id, "GET", Caneta, NoFile, FALSE, 0, FALSE)
    \/ \E id \in ids, s \in edicoes :
          editar_produto(id, "POST", s[1], s[2], s[3], 0, FALSE)
    \/ \E id \in ids : excluir_produto(id, 0)
    \/ estoque(0)
    \/ \E id \in ids, f \in quantidades : atualizar_estoque(id, f, 0)

\* ... to the sales and report routes
VendaRequests(forms) ==
    \/ vendas(0)
    \/ \E m \in Methods, f \in forms : nova_venda(m, f, 0)
    \/ relatorios
    \/ api_relatorio_vendas(0)
    \/ api_relatorio_estoque(0)

\* ... to the sync routes, each with the engine's function returning or
\* raising, and the completion of the passes they wait for
SyncRequests(faults) ==
    \/ \E fault \in faults : start_sync_route(fault)
    \/ \E fault \in faults : stop_sync_route(fault)
    \/ \E fault \in faults : force_sync_route(fault)
    \/ \E fault \in faults : sync_status_route(fault)
    \/ \E done \in SUBSET DOMAIN Reconcile(syncLocal, syncRemote) :
          sync_pass_end(done)

\* ... to the diagnostic and static routes
OtherRequests(routes) ==
    \/ teste_clientes(0)
    \/ \E r \in routes : public(r)
    \/ \E h \in {UniqueNames[1], "x.png"} : uploaded_file(h)

\* the credentials that log in, and a pair that does not
AdminForm == [username |-> "admin", password |-> "admin123"]
WrongForm == [username |-> "admin", password |-> "wrong"]

\* The authentication routes under every credential pair.
NextAuth == AuthRequests(LoginForms)

SpecAuth == Init /\ [][NextAuth]_vars

\* Every route of the panel, with one submission for each form and one id
\* (which names an entity once the store has created it); the specifications
\* after this one go through the submissions and the ids.
Next ==
    \/ AuthRequests({AdminForm})
    \/ ClienteRequests({cliente_teste}, {"1"})
    \/ CategoriaRequests({[nome |-> "Papelaria", descricao |-> "escrita",
                           cor |-> "azul", icone |-> "lapis"]}, {"1"})
    \/ ProdutoRequests({<<Caneta, Foto, TRUE>>},
                       {<<[Caneta EXCEPT !.quantidade = "0"], NoFile, FALSE>>},
                       {[quantidade |-> "0"]},
                       {"1"})
    \/ VendaRequests({[cliente_id |-> "1", total |-> "5"]})
    \/ SyncRequests({0})
    \/ OtherRequests({"teste", "api_status", "teste_sessao"})

Spec == Init /\ [][Next]_vars

\* one well-formed category
Papelaria ==
    [nome |-> "Papelaria", descricao |-> "escrita", cor |-> "azul",
     icone |-> "lapis"]

\* The stock routes under every quantity, with the product routes that
\* create, edit and delete the products they act on.
NextEstoque ==
    \/ AuthRequests({AdminForm})
    \/ ProdutoRequests({<<Caneta, NoFile, FALSE>>,
                        <<[Caneta EXCEPT !.quantidade = "-1"], NoFile, FALSE>>},
                       {<<[Caneta EXCEPT !.quantidade = "-1"], NoFile, FALSE>>,
                        <<[Caneta EXCEPT !.quantidade = "4"], NoFile, FALSE>>},
                       EstoqueForms, RequestIds)

SpecEstoque == Init /\ [][NextEstoque]_vars

\* The product edit route under every submission.
ProdutoSubmissions ==
    {<<f, NoFile, FALSE>> : f \in ProdutoForms}
    \cup {<<Caneta, Foto, TRUE>>, <<Caneta, Foto, FALSE>>,
          <<Caneta, EmptyFile, FALSE>>}

NextEdicao ==
    \/ AuthRequests({AdminForm})
    \/ ProdutoRequests({<<Caneta, NoFile, FALSE>>}, ProdutoSubmissions,
                       {[quantidade |-> "4"]}, RequestIds)

SpecEdicao == Init /\ [][NextEdicao]_vars

\* The routes that create and delete entities, under every submission.
NextCadastro ==
    \/ AuthRequests({AdminForm})
    \/ clientes(0)
    \/ \E f \in ClienteForms : novo_cliente("POST", f, 0)
    \/ \E id \in RequestIds : excluir_cliente(id, 0)
    \/ categorias(0)
    \/ \E f \in CategoriaForms : nova_categoria("POST", f, 0)
    \/ \E id \in RequestIds : excluir_categoria(id, 0)
    \/ produtos(0)
    \/ \E s \in ProdutoSubmissions : novo_produto("POST", s[1], s[2], s[3], 0)
    \/ \E id \in RequestIds : excluir_produto(id, 0)

SpecCadastro == Init /\ [][NextCadastro]_vars

\* the store calls of one request, numbered; 0 for none of them failing
Faults(n) == 0..n

\* The start-up block, then the sync routes and the engine, with each of
\* the engine's functions returning or raising.
NextSync ==
    \/ \E result \in {"ok", "failed", "raises"} : main_test_connection(result)
    \/ \E fault \in Faults(2) : main_criar_usuario_padrao(fault)
    \/ \E fault \in Faults(1) : main_start_sync(fault)
    \/ \E bound \in BOOLEAN : main_app_run(bound)
    \/ \E bound \in BOOLEAN : main_emergency(bound)
    \/ login("POST", AdminForm)
    \/ logout
    \/ SyncRequests(Faults(1))
    \/ sync_tick

SpecSync == InitMain /\ [][NextSync]_vars

\* The API-style routes, with each of their calls returning or raising.
NextApi ==
    \/ AuthRequests({AdminForm})
    \/ \E fault \in Faults(1) : api_relatorio_vendas(fault)
    \/ \E fault \in Faults(1) : api_relatorio_estoque(fault)
    \/ \E fault \in Faults(1) : sync_status_route(fault)
    \/ \E fault \in Faults(3) : teste_clientes(fault)
    \/ \E fault \in Faults(1) : excluir_cliente("1", fault)
    \/ \E r \in PublicRoutes : public(r)
    \/ \E fault \in Faults(1) : nova_venda("POST", [cliente_id |-> "1", total |-> "5"],
                                           fault)

SpecApi == Init /\ [][NextApi]_vars

\* Every route that calls the store, with each of its calls returning or
\* raising.
NextFalha ==
    \/ login("POST", AdminForm)
    \/ \E fault \in Faults(4) : index(fault)
    \/ \E fault \in Faults(1) : clientes(fault)
    \/ \E fault \in Faults(1) : novo_cliente("POST", cliente_teste, fault)
    \/ \E m \in Methods, fault \in Faults(2) :
          editar_cliente("1", m, cliente_teste, fault)
    \/ \E fault \in Faults(1) : excluir_cliente("1", fault)
    \/ \E fault \in Faults(1) : categorias(fault)
    \/ \E fault \in Faults(1) : nova_categoria("POST", Papelaria, fault)
    \/ \E m \in Methods, fault \in Faults(2) :
          editar_categoria("1", m, Papelaria, fault)
    \/ \E fault \in Faults(1) : excluir_categoria("1", fault)
    \/ \E fault \in Faults(2) : produtos(fault)
    \/ \E m \in Methods, fault \in Faults(2) :
          novo_produto(m, Caneta, NoFile, FALSE, fault)
    \/ \E m \in Methods, fault \in Faults(3) :
          editar_produto("1", m, Caneta, NoFile, FALSE, fault, FALSE)
    \/ \E fault \in Faults(1) : excluir_produto("1", fault)
    \/ \E fault \in Faults(1) : estoque(fault)
    \/ \E fault \in Faults(2) :
          atualizar_estoque("1", [quantidade |-> "3"], fault)
    \/ \E fault \in Faults(1) : vendas(fault)
    \/ \E m \in Methods, fault \in Faults(3) :
          nova_venda(m, [cliente_id |-> "1", total |-> "5"], fault)
    \/ \E fault \in Faults(1) : api_relatorio_vendas(fault)
    \/ \E fault \in Faults(1) : api_relatorio_estoque(fault)
    \/ \E fault \in Faults(3) : teste_clientes(fault)

SpecFalha == Init /\ [][NextFalha]_vars

\* the entities a side of the sync may hold
SyncIds == {"A", "B"}
SyncEntity == [rev : 1..MaxRev, data : {"x", "y"}]
SyncSides == UNION {[ids -> SyncEntity] : ids \in SUBSET SyncIds}

\* The sync engine reconciling every pair of sides.
InitReconcile == \E local \in SyncSides, remote \in SyncSides : Booted(local, remote)

NextReconcile ==
    \/ login("POST", AdminForm)
    \/ SyncRequests({0})
    \/ sync_tick

SpecReconcile == InitReconcile /\ [][NextReconcile]_vars

\* a second product form
Lapis ==
    [nome |-> "Lapis", descricao |-> "preto", preco |-> "7",
     quantidade |-> "4", categoria_id |-> "2", codigo_barras |-> "123"]

\* the products of a store in which novo_produto() created Caneta and Lapis
\* in an earlier run, neither with an image
Loja ==
    [id \in {"1", "2"} |->
        Patch(novo_produto_data(IF id = "1" THEN Caneta ELSE Lapis, NoneStr),
              [id |-> id])]

\* run as a script with the store reachable and holding those two products
InitLoja ==
    /\ SUPABASE_AVAILABLE = TRUE
    /\ PORT = "5000"
    /\ phase = "serving"
    /\ session = Anonymous
    /\ Usuario = [i \in {"1"} |-> usuario_padrao]
    /\ Cliente = Empty /\ Categoria = Empty /\ Venda = Empty
    /\ Produto = Loja
    /\ seq = [Usuario |-> 2, Cliente |-> 1, Categoria |-> 1,
              Produto |-> 3, Venda |-> 1]
    /\ uploads = {}
    /\ syncState = "Running"
    /\ syncPasses = 0 /\ syncTicks = 0 /\ syncRunning = 0
    /\ syncCallers = 0 /\ syncQueued = 0 /\ syncStopping = FALSE
    /\ syncLocal = Empty /\ syncRemote = Empty /\ syncError = ""
    /\ request = [route |-> "startup"]
    /\ response = None
    /\ calls = NoCalls
    /\ teste = None
    /\ loaded = None

\* The stock and product-edit routes on the store of two products.
NextLoja ==
    \/ login("POST", AdminForm)
    \/ estoque(0)
    \/ \E id \in {"1", "2", "99"}, fault \in Faults(2),
          f \in {[quantidade |-> "0"], [quantidade |-> "4"]} :
          atualizar_estoque(id, f, fault)
    \/ \E id \in {"1", "2"}, kept \in BOOLEAN :
          editar_produto(id, "GET", Caneta, NoFile, FALSE, 0, kept)
    \/ \E id \in {"1", "2"}, form \in {Caneta, Lapis} :
          editar_produto(id, "POST", form, NoFile, FALSE, 0, FALSE)
    \/ \E m \in Methods, fault \in Faults(1) :
          nova_venda(m, [cliente_id |-> "1", total |-> "5"], fault)

SpecLoja == InitLoja /\ [][NextLoja]_vars

\* the product rows a store can hold for product `id`: its quantity a
\* number, the column missing from the row, or the column holding NULL
Linhas(id) ==
    {Patch(Loja[id], [quantidade |-> q]) : q \in {0, 4}}
    \cup {[c \in DOMAIN Loja[id] \ {"quantidade"} |-> Loja[id][c]]}
    \cup {Patch(Loja[id], [nulls |-> {"quantidade"}])}

\* run as a script with the store reachable and holding two such rows
InitInventario ==
    /\ SUPABASE_AVAILABLE = TRUE
    /\ PORT = "5000"
    /\ phase = "serving"
    /\ session = Anonymous
    /\ Usuario = [i \in {"1"} |-> usuario_padrao]
    /\ Cliente = Empty /\ Categoria = Empty /\ Venda = Empty
    /\ \E um \in Linhas("1"), dois \in Linhas("2") :
          Produto = [id \in {"1", "2"} |-> IF id = "1" THEN um ELSE dois]
    /\ seq = [Usuario |-> 2, Cliente |-> 1, Categoria |-> 1,
              Produto |-> 3, Venda |-> 1]
    /\ uploads = {}
    /\ syncState = "Running"
    /\ syncPasses = 0 /\ syncTicks = 0 /\ syncRunning = 0
    /\ syncCallers = 0 /\ syncQueued = 0 /\ syncStopping = FALSE
    /\ syncLocal = Empty /\ syncRemote = Empty /\ syncError = ""
    /\ request = [route |-> "startup"]
    /\ response = None
    /\ calls = NoCalls
    /\ teste = None
    /\ loaded = None

\* The inventory listing over those rows, and the deletion of a product.
NextInventario ==
    \/ login("POST", AdminForm)
    \/ logout
    \/ \E fault \in Faults(1) : estoque(fault)
    \/ \E id \in {"1", "2"} : excluir_produto(id, 0)

SpecInventario == InitInventario /\ [][NextInventario]_vars

\* One request to /teste/clientes served statement by statement while the
\* other requests that create and delete customers are served.
NextConcorrencia ==
    \/ AuthRequests({AdminForm})
    \/ teste_clientes_antes
    \/ teste_clientes_create
    \/ teste_clientes_depois
    \/ teste_clientes(0)
    \/ novo_cliente("POST", cliente_teste, 0)
    \/ excluir_cliente("1", 0)
    \/ clientes(0)

SpecConcorrencia == Init /\ [][NextConcorrencia]_vars

\* The start-up block, then login attempts under every credential pair,
\* whether or not the store is available, holds the default user, or
\* holds it with another password.
NextCredenciais ==
    \/ \E result \in {"ok", "failed", "raises"} : main_test_connection(result)
    \/ \E fault \in Faults(2) : main_criar_usuario_padrao(fault)
    \/ main_start_sync(0)
    \/ main_app_run(TRUE)
    \/ main_emergency(TRUE)
    \/ usuario_password_changed
    \/ \E f \in LoginForms : login("POST", f)
    \/ logout

SpecCredenciais == InitMain /\ [][NextCredenciais]_vars

-----------------------------------------------------------------------------
(* Properties *)

\* the request just answered reached the view function `route`
Served(route) == request.route = route /\ "denied" \notin DOMAIN request

\* the request just answered is a login attempt carrying both fields
LoginAttempt ==
    /\ Served("login")
    /\ request.method = "POST"
    /\ ~KeyError(request.form, {"username", "password"})

\* C1: a login attempt yields an identity exactly when the username is
\* 'admin' and the password is 'admin123', compared as whole strings and
\* case-sensitively; every other pair yields none and the login is refused.
C1_ExactCredentials ==
    LoginAttempt =>
        LET u == request.form.username
            p == request.form.password
            exact == u = "admin" /\ p = "admin123"
        IN  /\ authenticate_user(u, p) # None <=> exact
            /\ exact => response.code = 302 /\ response.view = "index"
                        /\ session = "admin"
            /\ ~exact => response.code = 200 /\ response.view = "login.html"

\* C1 witness: 'Admin'/'admin123' was submitted and refused
C1_Witness ==
    /\ LoginAttempt
    /\ request.form = [username |-> "Admin", password |-> "admin123"]
    /\ response.view = "login.html"
    /\ session = Anonymous

\* C2: every failed login attempt, whichever field was wrong, gets no
\* identity from authenticate_user and one and the same answer from the
\* login route, so the answers of two failed attempts never differ.
C2_FailureIndistinguishable ==
    (LoginAttempt /\ request.form # AdminForm) =>
        /\ authenticate_user(request.form.username, request.form.password) = None
        /\ response = Render("login.html",
                             Flash("Usuario ou senha incorretos!", "error"), None)

\* C2 witness: only the username was wrong, and the generic answer was given
C2_Witness ==
    /\ LoginAttempt
    /\ request.form = [username |-> "nope", password |-> "admin123"]
    /\ response.flash = Flash("Usuario ou senha incorretos!", "error")

\* the step is one of the engine's own: a tick, or the end of a pass
TickBegan == syncTicks' = syncTicks + 1
PassEnded ==
    /\ syncRunning > 0
    /\ syncRunning' = syncRunning - 1 \/ (syncQueued > 0 /\ syncQueued' = 0)
EngineStep == TickBegan \/ PassEnded

\* C3: a request changes the store or the upload folder, starts or stops
\* the sync engine or forces a pass only if its session is authenticated;
\* the steps of the engine itself (a tick, the end of a pass, which honours
\* a stop requested during the pass) are not requests.
C3_MutationsGated ==
    [][(/\ ~EngineStep
        /\ <<store, uploads, syncState, syncStopping, syncPasses>>'
              # <<store, uploads, syncState, syncStopping, syncPasses>>)
       => Authenticated]_vars

\* C3 witness: with a product in the store, a stock update without a session
\* was turned away
C3_Witness ==
    /\ request = [route |-> "atualizar_estoque", denied |-> TRUE]
    /\ response = Unauthorized
    /\ Produto # Empty
    /\ ~Authenticated

\* the request just answered is a stock update to a negative quantity
NegativeUpdate(req) ==
    /\ req.route = "atualizar_estoque"
    /\ "denied" \notin DOMAIN req
    /\ IsInt(req.form.quantidade)
    /\ int(req.form.quantidade) < 0

\* C4: no stored product has a negative quantity, whatever products were
\* created, edited and had their stock updated.
C4_NoNegativeStock ==
    \A id \in DOMAIN Produto : Produto[id].quantidade >= 0

\* C5: a stock update to a negative quantity is answered with an error and
\* leaves the product table as it was.
C5_NegativeQuantityRejected ==
    [][NegativeUpdate(request') =>
          /\ Produto' = Produto
          /\ response'.flash[1].category = "error"]_vars

\* C6: the inventory listing reports a product in stock exactly when its
\* quantity is above zero, in the listing of the current store and in the
\* page a request to the listing was just answered with.
C6_StatusFromQuantity ==
    /\ \A id \in DOMAIN get_all(Produto) :
          /\ id \in DOMAIN estoque_page.linhas
          /\ estoque_list[id].status = "Em estoque" <=> Produto[id].quantidade > 0
          /\ estoque_page.linhas[id].status = "Em estoque"
                <=> Produto[id].quantidade > 0
    /\ Served("estoque") =>
          \A id \in DOMAIN get_all(Produto) :
              /\ id \in DOMAIN response.body.linhas
              /\ response.body.linhas[id].status = "Em estoque"
                    <=> Produto[id].quantidade > 0

\* C6 witness: the listing was requested and shows a product whose quantity
\* is 0 as out of stock
C6_Witness ==
    /\ Served("estoque")
    /\ \E id \in DOMAIN Produto :
          /\ Produto[id].quantidade = 0
          /\ response.body.linhas[id].status = "Sem estoque"

\* the fields editar_produto() reads with a default
DefaultedFields == {"descricao", "preco", "quantidade", "codigo_barras"}

\* the request just answered is a product edit that reached the store
EditSubmitted(req) ==
    /\ req.route = "editar_produto"
    /\ "denied" \notin DOMAIN req
    /\ req.method = "POST"

\* C7: a product edit keeps the stored value of every field the submitted
\* form leaves out.
C7_OmittedFieldsKept ==
    [][(EditSubmitted(request') /\ request'.id \in DOMAIN Produto) =>
          \A k \in DefaultedFields :
              request'.form[k] = Absent =>
                  Produto'[request'.id][k] = Produto[request'.id][k]]_vars

\* the request is the deletion of a category some product refers to
ReferencedDelete(req) ==
    /\ req.route = "excluir_categoria"
    /\ "denied" \notin DOMAIN req
    /\ req.id \in DOMAIN Categoria
    /\ \E p \in DOMAIN Produto : Produto[p].categoria_id = req.id

\* C8: deleting a category that a product refers to is answered with a
\* conflict error and leaves the category and the product in the store.
C8_ReferencedCategoriaKept ==
    [][ReferencedDelete(request') =>
          /\ Categoria' = Categoria
          /\ Produto' = Produto
          /\ response'.flash[1].category = "error"
          /\ response'.flash[1].detail = "ConflictError"]_vars

\* C8 witness: the deletion of a category in use was just refused
C8_Witness ==
    /\ ReferencedDelete(request)
    /\ response.flash[1].detail = "ConflictError"
    /\ \E p \in DOMAIN Produto : Produto[p].categoria_id \in DOMAIN Categoria

\* the id the store assigned in the last create of `model`
LastId(model) == IdStr[seq[model] - 1]

\* the create route just answered, and took its success branch
Created(route, list) ==
    /\ Served(route)
    /\ request.method = "POST"
    /\ response.code = 302
    /\ response.view = list

\* C9: after a create route succeeded, get_by_id of the id the store
\* assigned returns the submitted value in every field the user supplied
\* (the numeric fields as the numbers the submitted text denotes).
C9_CreateRoundTrip ==
    /\ Created("novo_cliente", "clientes") =>
          /\ get_by_id(Cliente, LastId("Cliente")) # None
          /\ \A k \in ClienteFields :
                get_by_id(Cliente, LastId("Cliente"))[k] = request.form[k]
    /\ Created("nova_categoria", "categorias") =>
          /\ get_by_id(Categoria, LastId("Categoria")) # None
          /\ \A k \in CategoriaFields :
                get_by_id(Categoria, LastId("Categoria"))[k] = request.form[k]
    /\ Created("novo_produto", "produtos") =>
          /\ get_by_id(Produto, LastId("Produto")) # None
          /\ \A k \in {"nome", "descricao", "categoria_id", "codigo_barras"} :
                get_by_id(Produto, LastId("Produto"))[k] = request.form[k]
          /\ get_by_id(Produto, LastId("Produto")).preco = float(request.form.preco)
          /\ request.form.quantidade # Absent =>
                get_by_id(Produto, LastId("Produto")).quantidade
                    = int(request.form.quantidade)

\* C9 witness: a customer was just created from a submitted form
C9_Witness ==
    /\ Created("novo_cliente", "clientes")
    /\ get_by_id(Cliente, LastId("Cliente")).cidade = request.form.cidade
    /\ request.form.nome \in {"Ana", "Bia"}

\* the list routes, and the ids (or only the number) of the rows of a
\* table that the answer of one shows; NotShown where it shows none
ReadRoutes == {"clientes", "categorias", "produtos", "vendas", "estoque", "index"}
NotShown == 0 - 1
Shown(req, resp, model) ==
    CASE req.route = "clientes" /\ model = "Cliente" ->
            Cardinality(DOMAIN resp.body.clientes)
      [] req.route = "categorias" /\ model = "Categoria" ->
            Cardinality(DOMAIN resp.body.categorias)
      [] req.route = "produtos" /\ model = "Produto" ->
            Cardinality(DOMAIN resp.body.produtos)
      [] req.route = "produtos" /\ model = "Categoria" ->
            Cardinality(DOMAIN resp.body.categorias)
      [] req.route = "vendas" /\ model = "Venda" ->
            Cardinality(DOMAIN resp.body.vendas)
      [] req.route = "estoque" /\ model = "Produto" ->
            Cardinality(DOMAIN resp.body.linhas)
      [] req.route = "index" /\ resp.code = 200 /\ model = "Cliente" ->
            resp.body.total_clientes
      [] req.route = "index" /\ resp.code = 200 /\ model = "Produto" ->
            resp.body.total_produtos
      [] req.route = "index" /\ resp.code = 200 /\ model = "Categoria" ->
            resp.body.total_categorias
      [] req.route = "index" /\ resp.code = 200 /\ model = "Venda" ->
            resp.body.total_vendas
      [] OTHER -> NotShown
ShownIds(req, resp) ==
    CASE req.route = "produtos" -> DOMAIN resp.body.produtos
      [] req.route = "estoque" -> DOMAIN resp.body.linhas
      [] OTHER -> {}

\* a request to a list route that reached its view function
Read(req) == req.route \in ReadRoutes /\ "denied" \notin DOMAIN req

\* C10: a request to a list route leaves the store as it was, and two such
\* requests in a row show the same rows of every table both of them show.
C10_ReadsIdempotent ==
    [][Read(request') =>
          /\ store' = store
          /\ uploads' = uploads
          /\ Read(request) =>
                /\ \A m \in {"Cliente", "Categoria", "Produto", "Venda"} :
                      \/ Shown(request, response, m) = NotShown
                      \/ Shown(request', response', m) = NotShown
                      \/ Shown(request, response, m) = Shown(request', response', m)
                /\ {request.route, request'.route} = {"produtos", "estoque"} =>
                      ShownIds(request, response) = ShownIds(request', response')
                /\ request'.route = request.route => response'.body = response.body]_vars

\* C10 witness: the stock listing was just read and shows the one product
\* the store holds, out of stock
C10_Witness ==
    /\ Read(request)
    /\ request.route = "estoque"
    /\ response.body.total = 1
    /\ response.body.sem_estoque = 1
    /\ Cardinality(DOMAIN Produto) = 1

\* the handler made the call `name`; ... and the call raised `e`
Invoked(made, name) == \E i \in DOMAIN made : made[i].call = name
Raised(made, name, e) ==
    \E i \in DOMAIN made : made[i].call = name /\ made[i].raised = e

\* the request is the creation of a product whose price is not the text of
\* a non-negative number
BadPreco(req) ==
    /\ req.route = "novo_produto"
    /\ "denied" \notin DOMAIN req
    /\ req.method = "POST"
    /\ ~KeyError(req.form, {"nome", "descricao", "preco"})
    /\ ~IsFloat(req.form.preco) \/ float(req.form.preco) < 0

\* C11 as stated: creating a product whose price is unparseable or negative
\* is answered with an error, never invokes the store's create, and adds no
\* product.
C11_CreateNeverInvoked ==
    [][BadPreco(request') =>
          /\ response'.flash[1].category = "error"
          /\ ~Invoked(calls', "Produto.create")
          /\ Produto' = Produto]_vars

\* C11 amended: creating a product whose price is unparseable or negative is
\* answered with an error and adds no product; for an unparseable price
\* float() raises and the store's create is never invoked, for a negative
\* price the route does invoke create and it is the store that refuses the
\* product with a validation error.
C11_BadPrecoRejected ==
    [][BadPreco(request') =>
          /\ response'.flash[1].category = "error"
          /\ Produto' = Produto
          /\ ~IsFloat(request'.form.preco) =>
                /\ ~Invoked(calls', "Produto.create")
                /\ response'.flash[1].detail = "ValueError"
          /\ (IsFloat(request'.form.preco) /\ novo_produto_error(request'.form) = "")
                => /\ Invoked(calls', "Produto.create")
                   /\ SUPABASE_AVAILABLE =>
                         /\ Raised(calls', "Produto.create", "ValidationError")
                         /\ response'.flash[1].detail = "ValidationError"]_vars

\* C11 witness: a product priced -5 was submitted, create was invoked and
\* the store refused it
C11_Witness ==
    /\ BadPreco(request)
    /\ request.form.preco = "-5"
    /\ Raised(calls, "Produto.create", "ValidationError")
    /\ response.flash[1].detail = "ValidationError"
    /\ \A id \in DOMAIN Produto : Produto[id].preco >= 0

\* the step is the request to `route` calling the engine's function `fn`,
\* which returned
SyncCall(route, fn) ==
    /\ ~EngineStep
    /\ SUPABASE_AVAILABLE
    /\ request'.route = route
    /\ "denied" \notin DOMAIN request'
    /\ calls' = Call(fn, "")

\* C12: the engine's state changes only from Idle or Stopped to Running, in
\* a step that calls start_sync(), and from Running to Stopped, in a step
\* that calls stop_sync() with no pass in flight or in the step that ends
\* the pass that was in flight when stop_sync() was called; start_sync()
\* leaves the engine Running, stop_sync() leaves a Running engine Stopped or
\* waiting for the pass in flight; and the scheduler begins a pass only
\* while the engine is Running and no stop is waiting.
C12_SyncTransitions ==
    [][/\ syncState' # syncState =>
             \/ /\ syncState \in {"Idle", "Stopped"}
                /\ syncState' = "Running"
                /\ \/ SyncCall("start_sync_route", "start_sync")
                   \/ phase = "sync" /\ phase' = "run"
             \/ /\ syncState = "Running"
                /\ syncState' = "Stopped"
                /\ \/ SyncCall("stop_sync_route", "stop_sync") /\ syncRunning = 0
                   \/ PassEnded /\ syncStopping
       /\ SyncCall("start_sync_route", "start_sync") =>
             syncState' = "Running" /\ ~syncStopping'
       /\ (SyncCall("stop_sync_route", "stop_sync") /\ syncState = "Running") =>
             \/ syncRunning = 0 /\ syncState' = "Stopped"
             \/ syncRunning > 0 /\ syncState' = "Running" /\ syncStopping'
       /\ TickBegan => syncState = "Running" /\ ~syncStopping]_vars

\* C12 witness: stop_sync() was called while a scheduled pass was in
\* flight, and the engine is still Running until the pass completes
C12_Witness ==
    /\ request.route = "stop_sync_route"
    /\ calls = Call("stop_sync", "")
    /\ syncTicks = 1 /\ syncRunning = 1
    /\ syncStopping
    /\ syncState = "Running"

\* the step is a request to force_sync_route whose call of force_sync() was
\* accepted: it returned (the lambda of the fallback) or waits for its pass
ForceEntry ==
    /\ ~EngineStep
    /\ request'.route = "force_sync_route"
    /\ "denied" \notin DOMAIN request'
    /\ calls' = Call("force_sync", "")
    /\ "waiting" \in DOMAIN request' \/ ~SUPABASE_AVAILABLE

C14_SingleFlight ==
    [][/\ syncRunning' <= 1
       /\ (ForceEntry /\ SUPABASE_AVAILABLE /\ syncRunning > 0) =>
             /\ syncRunning' = syncRunning
             /\ syncQueued' = syncQueued + 1
             /\ syncPasses' = IF syncQueued = 0 THEN syncPasses + 1 ELSE syncPasses
       /\ (PassEnded /\ syncQueued > 0) =>
             /\ syncRunning' = 1
             /\ syncCallers' = syncQueued
             /\ syncQueued' = 0
             /\ syncPasses' = syncPasses]_vars

\* C14 witness: two requests to force_sync_route arrived while the
\* scheduler's pass was in flight; both wait, and one pass was added
C14_Witness ==
    /\ request = [route |-> "force_sync_route", waiting |-> TRUE]
    /\ syncTicks = 1 /\ syncRunning = 1
    /\ syncQueued = 2
    /\ syncPasses = 1

\* the sides of the example: local {A(rev=1)}, remote {A(rev=2), B}
C15_Local == [id \in {"A"} |-> [rev |-> 1, data |-> "x"]]
C15_Remote ==
    [id \in {"A", "B"} |->
        IF id = "A" THEN [rev |-> 2, data |-> "y"] ELSE [rev |-> 1, data |-> "x"]]

\* C15: when a reconciliation pass ends without an error, the local and the
\* remote side hold the same entities: an id only the remote side held is
\* pulled, an id only the local side held is pushed, and for an id both
\* held the higher revision stays, the remote entity on a tie; local
\* {A(rev=1)} and remote {A(rev=2), B} become {A(rev=2), B} on both sides.
C15_Convergence ==
    [][(PassEnded /\ syncError' = "") =>
          /\ syncLocal' = syncRemote'
          /\ DOMAIN syncLocal' = DOMAIN syncLocal \cup DOMAIN syncRemote
          /\ \A id \in DOMAIN syncLocal' :
                syncLocal'[id] =
                   IF id \notin DOMAIN syncLocal THEN syncRemote[id]
                   ELSE IF id \notin DOMAIN syncRemote THEN syncLocal[id]
                   ELSE IF syncLocal[id].rev > syncRemote[id].rev
                        THEN syncLocal[id]
                        ELSE syncRemote[id]
          /\ (syncLocal = C15_Local /\ syncRemote = C15_Remote) =>
                syncLocal' = C15_Remote /\ syncRemote' = C15_Remote]_vars

\* C15 witness: a pass has ended without an error and both sides hold the
\* example's {A(rev=2), B}
C15_Witness ==
    /\ syncTicks + syncPasses > 0
    /\ syncRunning = 0
    /\ syncError = ""
    /\ syncLocal = C15_Remote
    /\ syncRemote = C15_Remote

\* the functions of the sync engine the routes call
SyncFunctions == {"start_sync", "stop_sync", "force_sync", "get_sync_status"}

\* the step is a request to a sync route whose call of the engine raised
SyncRaised ==
    /\ ~EngineStep
    /\ "denied" \notin DOMAIN request'
    /\ \E fn \in SyncFunctions : calls' = Call(fn, ConnectivityError)

\* the answer reports the exception: the error flash of the sync routes or
\* the JSON error body of sync_status_route
SyncReported(resp) ==
    \/ /\ resp.code = 302
       /\ Len(resp.flash) = 1
       /\ resp.flash[1].category = "error"
       /\ resp.flash[1].detail = ConnectivityError
    \/ resp = JsonErro(ConnectivityError)

\* C16: a request whose call of start_sync, stop_sync, force_sync or
\* get_sync_status raises is answered with a report of the error, leaves
\* the engine as it was (no pass begins) and the application serving; at
\* start-up the block goes on to app.run() whether start_sync() returned
\* or raised; and a pass begins only at a tick of the scheduler, at a
\* request to force_sync_route, or for the calls that waited for it.
C16_SyncFailureCaught ==
    [][/\ SyncRaised =>
             /\ SyncReported(response')
             /\ phase' = "serving"
             /\ UNCHANGED engine
       /\ phase = "sync" => phase' = "run"
       /\ phase = "serving" => phase' = "serving"
       /\ (syncRunning' > syncRunning \/ syncPasses' > syncPasses) =>
             TickBegan \/ ForceEntry]_vars

\* C16 witness: force_sync() raised in a request to force_sync_route while
\* the engine was Running; the error was flashed and no pass has begun
C16_Witness ==
    /\ phase = "serving"
    /\ request = [route |-> "force_sync_route"]
    /\ calls = Call("force_sync", ConnectivityError)
    /\ SyncReported(response)
    /\ syncState = "Running"
    /\ syncRunning = 0 /\ syncPasses = 0 /\ syncTicks = 0

\* the API-style routes
ApiRoutes ==
    {"api_relatorio_vendas", "api_relatorio_estoque", "sync_status_route",
     "teste_clientes"}

\* the handler of an API-style route has answered the request
ApiAnswered == request.route \in ApiRoutes /\ "denied" \notin DOMAIN request

\* one of the calls the handler made raised
ApiRaised == \E i \in DOMAIN calls : calls[i].raised # ""

\* the answer flashes a failure
ApiFlashedError ==
    \E i \in DOMAIN response.flash : response.flash[i].category = "error"

\* the answer is 500 with the JSON body {"erro": <string>}
ApiErro ==
    /\ response.code = 500
    /\ response.view = "json"
    /\ response.body = [erro |-> ConnectivityError]

\* C17 as stated: an API-style route answers 500 with {"erro": ...} when a
\* call of its operation raised, 200 otherwise, and never 200 after a
\* failure.
C17_Never200AfterFailure ==
    ApiAnswered =>
        IF ApiRaised THEN ApiErro
        ELSE response.code = 200 /\ ~ApiFlashedError

\* C17 amended: an API-style route answers 500 with {"erro": ...} exactly
\* when a call of its operation raised and 200 otherwise; teste_clientes
\* answers 200 and flashes the failure when Cliente.create returned nothing
\* without raising, as the create of the fallback model does.
C17_ApiStatus ==
    ApiAnswered =>
        IF ApiRaised THEN ApiErro
        ELSE /\ response.code = 200
             /\ ApiFlashedError <=>
                   /\ request.route = "teste_clientes"
                   /\ response.body.cliente_teste = None

\* C17 witness: teste_clientes listed the customers, its Cliente.create
\* raised, and the answer is 500 with the JSON error body
C17_Witness ==
    /\ request = [route |-> "teste_clientes"]
    /\ calls = Call("Cliente.get_all", "")
                \o Call("Cliente.create", ConnectivityError)
    /\ ApiErro

\* the step is the request to `route` that names the id of no entity of
\* `table`
MissingEntity(route, table) ==
    /\ request'.route = route
    /\ "denied" \notin DOMAIN request'
    /\ get_by_id(table, request'.id) = None

\* C18: a request that names a missing entity or a missing file is answered
\* with status 404: editing a customer, a category or a product with an id
\* of no entity, updating the stock of such a product, and fetching an
\* upload that does not exist.
C18_MissingIs404 ==
    [][(\/ MissingEntity("editar_cliente", Cliente)
        \/ MissingEntity("editar_categoria", Categoria)
        \/ MissingEntity("editar_produto", Produto)
        \/ MissingEntity("atualizar_estoque", Produto)
        \/ /\ request'.route = "uploaded_file"
           /\ request'.filename \notin uploads)
       => response'.code = 404]_vars

\* a call of the store the handler of the last request made raised
StoreRaised ==
    /\ "denied" \notin DOMAIN request
    /\ \E i \in DOMAIN calls : calls[i].raised # ""

\* the answer reports an error to the caller: an error flash, or 500 with
\* the JSON error body
ErrorReported ==
    \/ \E i \in DOMAIN response.flash : response.flash[i].category = "error"
    \/ response.code = 500 /\ "erro" \in DOMAIN response.body

\* C19: when a call of the store (get_all, get_by_id, create, update,
\* delete) raises in the handler of a route, the handler still returns a
\* response, and the response reports an error to the caller.
C19_StoreFailureReported ==
    StoreRaised =>
        /\ response.code \in {200, 302, 500}
        /\ ErrorReported

\* C20: start-up degrades instead of crashing: on no path of the start-up
\* block (store connected, unreachable or absent, the creation of the
\* default user failing, start_sync() raising, any other exception) does
\* the process end without the HTTP server started; and the block starts
\* the automatic sync only after the connection test succeeded.
C20_StartupDegrades ==
    [][/\ phase' # "crashed"
       /\ (phase # "serving" /\ syncState' # syncState) =>
             phase = "sync" /\ syncState' = "Running"]_vars

\* the routes that create, update or delete an entity
MutationRoutes ==
    {"novo_cliente", "editar_cliente", "excluir_cliente",
     "nova_categoria", "editar_categoria", "excluir_categoria",
     "novo_produto", "editar_produto", "excluir_produto",
     "atualizar_estoque", "nova_venda", "teste_clientes"}

\* the routes that show their form on GET and create on POST
FormRoutes == {"novo_cliente", "nova_categoria", "novo_produto", "nova_venda"}

\* the handler of a route that creates, updates or deletes has answered a
\* request that asked for the mutation
MutationServed ==
    /\ request.route \in MutationRoutes
    /\ "denied" \notin DOMAIN request
    /\ request.route \in FormRoutes => request.method = "POST"

\* the answer flashes an error and no success
OnlyErrorFlashed ==
    /\ \E i \in DOMAIN response.flash : response.flash[i].category = "error"
    /\ \A i \in DOMAIN response.flash : response.flash[i].category # "success"

\* C21: the availability flag never changes; and while the store modules
\* are not loaded (MockModel everywhere) no entity exists after any
\* sequence of requests, and every request that asks a route to create,
\* update or delete is answered with an error flash and no success.
C21_FallbackStays ==
    [][/\ SUPABASE_AVAILABLE' = SUPABASE_AVAILABLE
       /\ ~SUPABASE_AVAILABLE =>
             /\ Usuario = Empty /\ Cliente = Empty /\ Categoria = Empty
             /\ Produto = Empty /\ Venda = Empty
             /\ Usuario' = Empty /\ Cliente' = Empty /\ Categoria' = Empty
             /\ Produto' = Empty /\ Venda' = Empty
             /\ MutationServed' => OnlyErrorFlashed']_vars

\* C21 witness: with the store modules not loaded, a customer form was
\* submitted and answered 'Erro ao criar cliente!', with no customer stored
C21_Witness ==
    /\ ~SUPABASE_AVAILABLE
    /\ request.route = "novo_cliente"
    /\ MutationServed
    /\ response.flash = Flash("Erro ao criar cliente!", "error")
    /\ Cliente = Empty

\* the step is a request to atualizar_estoque whose update succeeded
EstoqueUpdated ==
    /\ request'.route = "atualizar_estoque"
    /\ "denied" \notin DOMAIN request'
    /\ calls' = Call("Produto.get_by_id", "") \o Call("Produto.update", "")
    /\ \E i \in DOMAIN response'.flash : response'.flash[i].category = "success"

\* the quantity a stock form asks for
EstoqueQuantidade(form) ==
    IF form.quantidade = Absent THEN 0 ELSE int(form.quantidade)

\* C22: a successful atualizar_estoque with quantity q on product p leaves
\* p with quantity q in the next read, every other field of p as it was,
\* every other product as it was, and the other tables untouched.
C22_StockUpdateFrame ==
    [][EstoqueUpdated =>
          LET p == request'.id
              q == EstoqueQuantidade(request'.form)
          IN  /\ p \in DOMAIN Produto
              /\ DOMAIN get_all(Produto') = DOMAIN Produto
              /\ get_by_id(Produto', p).quantidade = q
              /\ get_all(Produto')[p].quantidade = q
              /\ DOMAIN Produto'[p] = DOMAIN Produto[p]
              /\ \A k \in DOMAIN Produto[p] \ {"quantidade"} :
                    Produto'[p][k] = Produto[p][k]
              /\ \A o \in DOMAIN Produto \ {p} : Produto'[o] = Produto[o]
              /\ UNCHANGED <<Usuario, Cliente, Categoria, Venda, seq, uploads>>]_vars

\* C22 witness: the stock of product 1 was set to 4 while product 2 is as
\* it was created
C22_Witness ==
    /\ request = [route |-> "atualizar_estoque", id |-> "1",
                  form |-> [quantidade |-> "4"]]
    /\ response.flash =
          Flash("Estoque atualizado com sucesso! Nova quantidade", "success")
    /\ Produto["1"] = [Loja["1"] EXCEPT !.quantidade = 4]
    /\ Produto["2"] = Loja["2"]

\* the step is the request to `route` that names the id of no entity of
\* `table`, and its get_by_id returned
LookedUpMissing(route, table, model) ==
    /\ MissingEntity(route, table)
    /\ Len(calls') >= 1
    /\ calls'[1] = [call |-> model \o ".get_by_id", raised |-> ""]

\* the step reports `message` as not found, calls nothing after get_by_id
\* and leaves the store and the upload folder as they were
NotFoundOnly(model, message) ==
    /\ response'.flash = Flash(message, "error")
    /\ calls' = Call(model \o ".get_by_id", "")
    /\ ~Invoked(calls', model \o ".update")
    /\ UNCHANGED <<store, uploads>>

\* C23: an edit or a stock update whose get_by_id finds no entity reports
\* 'not found', never calls the store's update and leaves the whole store
\* unchanged: editar_cliente, editar_categoria, editar_produto and
\* atualizar_estoque.
C23_MissingNeverUpdated ==
    [][/\ LookedUpMissing("editar_cliente", Cliente, "Cliente") =>
             NotFoundOnly("Cliente", "Cliente nao encontrado!")
       /\ LookedUpMissing("editar_categoria", Categoria, "Categoria") =>
             NotFoundOnly("Categoria", "Categoria nao encontrada!")
       /\ LookedUpMissing("editar_produto", Produto, "Produto") =>
             NotFoundOnly("Produto", "Produto nao encontrado!")
       /\ LookedUpMissing("atualizar_estoque", Produto, "Produto") =>
             NotFoundOnly("Produto", "Produto nao encontrado!")]_vars

\* C23 witness: with the store loaded and a customer stored, an edit form
\* was submitted for a product id that names no product
C23_Witness ==
    /\ SUPABASE_AVAILABLE
    /\ Cliente # Empty
    /\ Produto = Empty
    /\ request.route = "editar_produto"
    /\ "denied" \notin DOMAIN request
    /\ request.method = "POST"
    /\ response.flash = Flash("Produto nao encontrado!", "error")

\* the step is a request to nova_venda that its view function answered
VendaServed == request'.route = "nova_venda" /\ "denied" \notin DOMAIN request'

\* the calls of the store in `made` named `name`
CallsOf(made, name) == {i \in DOMAIN made : made[i].call = name}

\* C24: a request to nova_venda leaves every product (its quantity
\* included) and every other table but Venda as it was and calls no store
\* operation but Venda.create, at most once, and the reads of its form
\* page, so no SaleItem is created; a successful one adds exactly one sale
\* carrying cliente_id, data_venda, total and the status 'concluida'.
C24_SaleFrame ==
    [][VendaServed =>
          /\ UNCHANGED <<Usuario, Cliente, Categoria, Produto, uploads>>
          /\ \A p \in DOMAIN Produto : Produto'[p].quantidade = Produto[p].quantidade
          /\ \A i \in DOMAIN calls' :
                calls'[i].call \in {"Venda.create", "Cliente.get_all", "Produto.get_all"}
          /\ Cardinality(CallsOf(calls', "Venda.create")) <= 1
          /\ IF Raised(calls', "Venda.create", "") /\ response'.code = 302
             THEN \E id \in DOMAIN Venda' \ DOMAIN Venda :
                     /\ DOMAIN Venda' = DOMAIN Venda \cup {id}
                     /\ \A o \in DOMAIN Venda : Venda'[o] = Venda[o]
                     /\ Venda'[id] =
                           [id |-> id,
                            cliente_id |-> request'.form.cliente_id,
                            data_venda |-> "now",
                            total |-> float(request'.form.total),
                            status |-> "concluida"]
             ELSE Venda' = Venda]_vars

\* C24 witness: a sale was created while the store held the two products,
\* whose quantities are those they were created with
C24_Witness ==
    /\ request.route = "nova_venda"
    /\ response.flash = Flash("Venda criada com sucesso!", "success")
    /\ Venda # Empty
    /\ Produto["1"].quantidade = 3 /\ Produto["2"].quantidade = 4

\* the step is an edit form submitted for a product the store holds
ProdutoEdited ==
    /\ request'.route = "editar_produto"
    /\ "denied" \notin DOMAIN request'
    /\ request'.method = "POST"
    /\ get_by_id(Produto, request'.id) # None

\* C25: an edit of a product keeps the product and its image handle unless
\* the request saved a new file; the handle is replaced only by the handle
\* of the file the request saved, and a successful update of a request
\* that saved a file carries that handle.
C25_ImageHandleKept ==
    [][ProdutoEdited =>
          LET p == request'.id
          IN  /\ p \in DOMAIN Produto'
              /\ uploads' = uploads => Produto'[p].imagem = Produto[p].imagem
              /\ Produto'[p].imagem # Produto[p].imagem =>
                    uploads' = uploads \cup {Produto'[p].imagem}
              /\ (uploads' # uploads /\ Raised(calls', "Produto.update", "")
                    /\ response'.code = 302) =>
                    Produto'[p].imagem \in uploads' \ uploads]_vars

\* C25 witness: product 1 had the handle of an uploaded image, an edit
\* without a file succeeded, and the product still has the handle
C25_Witness ==
    /\ request.route = "editar_produto"
    /\ "denied" \notin DOMAIN request
    /\ request.method = "POST"
    /\ request.file = NoFile
    /\ response.flash = Flash("Produto atualizado com sucesso!", "success")
    /\ "1" \in DOMAIN Produto
    /\ Produto["1"].imagem = "uuid1_foto.png"
    /\ uploads = {"uuid1_foto.png"}

\* the step is a POST to login; `ok` tells whether authenticate_user
\* returned an identity for the submitted form
LoginStep(ok) ==
    /\ request'.route = "login"
    /\ request'.method = "POST"
    /\ ok <=> /\ ~KeyError(request'.form, {"username", "password"})
              /\ authenticate_user(request'.form.username,
                                   request'.form.password) # None

\* the step is a request to logout that reached the view function
LogoutStep == request'.route = "logout" /\ "denied" \notin DOMAIN request'

\* C26: the session becomes authenticated only by a login for which
\* authenticate_user returned an identity, and such a login leaves it
\* authenticated; it stops being authenticated only by logout, and logout
\* leaves it not authenticated; a failed login leaves it as it was; and
\* while it is not authenticated every request to a login-gated route is
\* denied and the dashboard redirects to login.
C26_SessionLifetime ==
    [][/\ (~Authenticated /\ Authenticated') => LoginStep(TRUE)
       /\ LoginStep(TRUE) => Authenticated'
       /\ (Authenticated /\ ~Authenticated') => LogoutStep
       /\ LogoutStep => ~Authenticated' /\ session' = Anonymous
       /\ LoginStep(FALSE) => session' = session
       /\ (~Authenticated /\ request'.route \in LoginRequired) =>
             /\ "denied" \in DOMAIN request'
             /\ response' = Unauthorized
             /\ session' = session
       /\ (~Authenticated /\ request'.route = "index") =>
             response' = Redirect("login", NoFlash)]_vars

\* C26 witness: a session that logged in has logged out, and is anonymous
C26_Witness ==
    /\ request = [route |-> "logout"]
    /\ response = Redirect("login", Flash("Logout realizado com sucesso!", "info"))
    /\ session = Anonymous
    /\ ~Authenticated

\* the request to /teste/clientes in progress has made its create call
TesteCreated ==
    /\ teste # None /\ teste.pc = "create"
    /\ teste' # None /\ teste'.pc = "depois"

\* the request to /teste/clientes in progress answers, its create having
\* returned a customer
TesteAnswered ==
    /\ teste # None /\ teste.pc = "depois" /\ teste.resultado # None
    /\ teste' = None

\* C27: each request to /teste/clientes whose create succeeded adds exactly
\* one customer, and the answer it returns has depois = antes + 1, also when
\* other requests that create or delete customers, /teste/clientes among
\* them, are served between its statements.
C27_TesteCountsOneMore ==
    [][/\ TesteCreated /\ teste'.resultado # None
          => Cardinality(DOMAIN Cliente') = Cardinality(DOMAIN Cliente) + 1
       /\ TesteAnswered
          => response'.body.depois = response'.body.antes + 1]_vars

\* what authenticate_user returns for the credentials alone
CredentialsOutcome(form) ==
    IF form.username = "admin" /\ form.password = "admin123"
    THEN [id |-> "admin", code |-> 302, view |-> "index"]
    ELSE [id |-> "", code |-> 200, view |-> "login.html"]

\* C28: the outcome of authenticate_user depends only on the submitted
\* username and password: in every state, whether the store is available
\* or not, whether or not criar_usuario_padrao has created the default user
\* and whatever password that stored user has, a login attempt with the same
\* credentials gets the same identity and the same answer.
C28_CredentialsOnly ==
    LoginAttempt =>
        LET user == authenticate_user(request.form.username, request.form.password)
            same == CredentialsOutcome(request.form)
        IN  /\ (IF user = None THEN "" ELSE user.id) = same.id
            /\ response.code = same.code
            /\ response.view = same.view
            /\ same.id # "" => session = same.id

\* C28 witness: the stored default user's password has been changed, and
\* 'admin'/'admin123' has still been accepted
C28_Witness ==
    /\ LoginAttempt
    /\ request.form = AdminForm
    /\ SUPABASE_AVAILABLE
    /\ "1" \in DOMAIN Usuario /\ Usuario["1"].password = "admin1234"
    /\ response.code = 302
    /\ session = "admin"

\* the request just answered is the inventory listing, and Produto.get_all()
\* returned
EstoqueListed ==
    /\ Served("estoque")
    /\ \A i \in DOMAIN calls : calls[i].raised = ""

\* C29: the inventory listing shows exactly one row per product that
\* Produto.get_all returned, whether a product's quantity is a number, is
\* absent or is null, and its 'in stock' and 'out of stock' counts add up
\* to its total.
C29_OneRowPerProduct ==
    EstoqueListed =>
        /\ DOMAIN response.body.linhas = DOMAIN get_all(Produto)
        /\ response.body.total = Cardinality(DOMAIN get_all(Produto))
        /\ response.body.em_estoque + response.body.sem_estoque
              = response.body.total

\* a stock update of the product whose edit form a browser holds has just
\* succeeded: the form was loaded before it
EstoqueUpdatedSinceLoaded ==
    /\ loaded # None
    /\ Served("atualizar_estoque")
    /\ request.id = loaded.id
    /\ calls = Call("Produto.get_by_id", "") \o Call("Produto.update", "")
    /\ \E i \in DOMAIN response.flash : response.flash[i].category = "success"

\* the step submits that form with the quantity it was loaded with, and the
\* edit succeeds
LoadedSubmitted ==
    /\ request'.route = "editar_produto"
    /\ "denied" \notin DOMAIN request'
    /\ request'.method = "POST"
    /\ request'.id = loaded.id
    /\ request'.form.quantidade # Absent
    /\ IsInt(request'.form.quantidade)
    /\ int(request'.form.quantidade) = loaded.quantidade
    /\ \E i \in DOMAIN response'.flash : response'.flash[i].category = "success"

\* C30: a stock update is not lost to a concurrent product edit: when
\* atualizar_estoque has set product p's quantity to q after an edit form for
\* p was loaded, and that form is then submitted with the quantity it was
\* loaded with, p's quantity is still q after the submission.
C30_StockUpdateNotLost ==
    [][EstoqueUpdatedSinceLoaded /\ LoadedSubmitted
          => Produto'[loaded.id].quantidade = Produto[loaded.id].quantidade]_vars

====
